---- MODULE Spec2Model ----
(***************************************************************************)
(* A model of the `running` crate's Callable (src/src/callable.rs): a unit *)
(* that owns a handle and an argument bundle, runs the handle inside       *)
(* panic::catch_unwind and returns a Result.                               *)
(*                                                                         *)
(* The handle is user code.  The model draws it from a small set of        *)
(* handles that act on one outside vector, the `vector` of the crate's     *)
(* tests: pop, push, remove (panics when the index is out of range), len   *)
(* and a closure that always panics.                                       *)
(***************************************************************************)
EXTENDS Integers, Sequences, FiniteSets, TLC

(***************************************************************************)
(* Bounds                                                                  *)
(***************************************************************************)
\* the longest outside vector that is explored
MaxVecLen == 7
\* the largest number of handle invocations followed on one unit
MaxCalls == 2
\* the width in bits the model gives usize, the type of the task-ID counters
UsizeBits == 2
\* the number of task IDs after which no further call is started
MaxIssued == 5
\* the longest LoggingFormat that is built
MaxFormatLen == 4

(***************************************************************************)
(* Values                                                                  *)
(***************************************************************************)
\* Option<T>: None is the empty sequence, Some(x) the one-element sequence
None == <<>>
Some(x) == <<x>>

\* return values of the handles, tagged with their Rust type
UnitValue == [type |-> "unit"]
IntValue(n) == [type |-> "isize", v |-> n]
SomeValue(n) == [type |-> "Some", v |-> n]
NoneValue == [type |-> "None"]

\* Result<R, Error>
Ok(v) == [tag |-> "Ok", value |-> v]
Err(e) == [tag |-> "Err", error |-> e]
\* nothing returned yet on this unit
NoResult == [tag |-> "none"]

\* the variants of CallableError
CallableError == {"CallableHandleMissing", "CallableArgumentsMissing", "CallablePanicked"}

\* the outside vector as the crate's tests set it up
InitVectors == {<<1, 2, 3, 4, 5, 6>>, <<1, 2, 3, 4, 5>>, <<>>}

PushValues == {7}
RemoveIndexes == {0, 5}

\* the handles and the most specific Fn* trait the handle's type implements
Ops == {"pop", "push", "remove", "len", "panicking_closure"}
Kinds == {"FnOnce", "FnMut", "Fn"}

\* the empty argument bundle ()
UnitBundle == [unit |-> TRUE]

\* the argument bundles of type A for a handle; self is &mut vector
Bundles(op) ==
    CASE op = "pop" -> {[self |-> "vector"]}
      [] op = "push" -> {[self |-> "vector", value |-> x] : x \in PushValues}
      [] op = "remove" -> {[self |-> "vector", index |-> i] : i \in RemoveIndexes}
      [] OTHER -> {UnitBundle}

\* A = (): the handle takes no arguments
NoArgs(op) == Bundles(op) = {UnitBundle}

\* the threads that draw task IDs
Threads == {1, 2}

\* usize values are taken modulo this
UsizeModulus == 2 ^ UsizeBits

VARIABLES
    F,          \* the handle's type: its code (op) and its Fn* kind
    handle,     \* AtomicCallable.handle : Option<F>
    arguments,  \* AtomicCallable.arguments : Option<A>
    vector,     \* the outside state the handles act on
    result,     \* what the last run / run_and_return returned to its caller
    lastCall,   \* the last operation called on the unit
    calls,      \* the invocations of the handle on this unit, in order
    argsHistory,\* args on this unit: "never" called, "bound", or "rebound" after an invocation
    crashed,    \* a panic unwound out of a call on the unit
    argsCall,   \* when the last call was args: the bundle passed in and what was stored before
    callbacks   \* the values the callbacks of run_and_then were invoked with, in order

\* the process-wide counters and the threads that draw task IDs from them
VARIABLES
    TASK_ID,            \* lib.rs: pub static TASK_ID
    TASK_ID_GENERATOR,  \* task.rs: static TASK_ID_GENERATOR
    pc,                 \* where each thread is in its call of generate_task_id
    ret,                \* what the call of each thread returned
    issued              \* the task IDs handed out, in the order of the fetch_add steps

\* a LoggingFormat in the hands of its builder
VARIABLES
    format,      \* LoggingFormat.logging_format : Vec<LoggingFormatToken>
    formatCall,  \* the last operation called on the format
    shared       \* a shared reference to the format has been handed out

\* the fields LoggedCallable adds to the stored callable, and the log sink
VARIABLES
    task_id,         \* LoggedCallable.task_id
    logging_data,    \* LoggedCallable.logging_data : Option<LoggingData>
    logging_format,  \* LoggedCallable.logging_format : Option<&LoggingFormat>
    output,          \* LoggedCallable.output : Option<thread::Result<R>>
    Rtraits,         \* which of Debug and Display the return type R implements
    rendered,        \* the String generate_log returned, where the last call made one
    emitted          \* the lines handed to the logging sink

\* a Job and the runnables handed to it
VARIABLES
    tasks,     \* Job.tasks : VecDeque<Box<dyn Runnable>>
    ran,       \* the entries whose run was called, in the order of the calls
    enqueued   \* the entries handed to the Job, in the order they were handed in

\* a call of try_string_from
VARIABLES
    value_given,      \* the value the reference passed in points to
    string_returned,  \* the Option<String> returned
    stringCall        \* try_string_from has been called on value_given

\* a Loggable of log.rs
VARIABLES
    preferences,  \* what logging_preferences() refers to : LoggingPreferences
    loggable_data,\* what logging_data() refers to : LoggingData
    prefixes,     \* what input_prefix() and output_prefix() return
    logCall       \* the last operation called on the Loggable

\* the one-time initialisation of the logger in the crate's tests
VARIABLES
    INIT,       \* tests::INIT : Once
    logger,     \* the logging configurations applied, in order
    setup_pc,   \* where each thread is in its call of setup_logging
    verbosity   \* the verbosity each thread called setup_logging with

callableVars == <<F, handle, arguments, vector, result, lastCall, calls, argsHistory, crashed,
                  argsCall, callbacks>>
taskVars == <<TASK_ID, TASK_ID_GENERATOR, pc, ret, issued>>
formatVars == <<format, formatCall, shared>>
loggedVars == <<task_id, logging_data, logging_format, output, Rtraits, rendered, emitted>>

jobVars == <<tasks, ran, enqueued>>
stringVars == <<value_given, string_returned, stringCall>>

logVars == <<preferences, loggable_data, prefixes, logCall>>
setupVars == <<INIT, logger, setup_pc, verbosity>>

vars == <<callableVars, taskVars, formatVars, loggedVars, jobVars, stringVars, logVars, setupVars>>

(***************************************************************************)
(* The handle: handle.call_once / call_mut / call (arguments)              *)
(***************************************************************************)
Front(s) == SubSeq(s, 1, Len(s) - 1)
RemoveAt(s, i) == SubSeq(s, 1, i) \o SubSeq(s, i + 2, Len(s))

\* what invoking the handle with bundle a does on the vector vec
Call(op, a, vec) ==
    CASE op = "pop" ->
           IF vec = <<>>
           THEN [panicked |-> FALSE, ret |-> NoneValue, vec |-> vec]
           ELSE [panicked |-> FALSE, ret |-> SomeValue(vec[Len(vec)]), vec |-> Front(vec)]
      [] op = "push" ->
           [panicked |-> FALSE, ret |-> UnitValue, vec |-> Append(vec, a.value)]
      [] op = "remove" ->
           IF a.index >= Len(vec)
           THEN [panicked |-> TRUE, ret |-> UnitValue, vec |-> vec]
           ELSE [panicked |-> FALSE, ret |-> IntValue(vec[a.index + 1]), vec |-> RemoveAt(vec, a.index)]
      [] op = "len" ->
           [panicked |-> FALSE, ret |-> IntValue(Len(vec)), vec |-> vec]
      [] OTHER ->
           [panicked |-> TRUE, ret |-> UnitValue, vec |-> vec]

(***************************************************************************)
(* Option::take, OptionExt::context, panic::catch_unwind                   *)
(***************************************************************************)
\* a take that clones the value out and leaves it where it was
take_left_in_place(opt) == [taken |-> opt, left |-> opt]

\* Option::take: the value that was there, and None left in its place
take(opt) == [taken |-> opt, left |-> None]

\* an as_mut that moves the value out
as_mut_takes(opt) == [taken |-> opt, left |-> None]

\* Option::as_mut: a borrow of the value, the option left as it is
as_mut(opt) == [taken |-> opt, left |-> opt]

\* the call record the model keeps of one invocation of the handle
Invocation(a, c) == [args |-> a, panicked |-> c.panicked]

\* The variations of a closure the checks below are tried against:
\* handleFirst checks the handle before the arguments, keepHandle borrows
\* the handle where the code moves it (and the reverse), discard returns
\* Ok(()) for Ok(value), swapped exchanges the two error selectors.
ClosureVariant(handleFirst, keepHandle, discard, swapped, h, a, vec) ==
    LET am == IF swapped THEN "CallableHandleMissing" ELSE "CallableArgumentsMissing"
        hm == IF swapped THEN "CallableArgumentsMissing" ELSE "CallableHandleMissing"
        hleft == IF keepHandle THEN h ELSE None
        failed(e, hl, al) == [unwind |-> FALSE, out |-> Err(e), handle |-> hl,
                              arguments |-> al, vec |-> vec, invoked |-> <<>>]
    IN  IF handleFirst /\ h = None THEN failed(hm, h, a)
        ELSE IF a = None THEN failed(am, IF handleFirst THEN hleft ELSE h, None)
        ELSE IF h = None THEN failed(hm, None, None)
        ELSE LET c == Call(h[1], a[1], vec) IN
             [unwind |-> c.panicked, out |-> Ok(IF discard THEN UnitValue ELSE c.ret),
              handle |-> hleft, arguments |-> None, vec |-> c.vec,
              invoked |-> <<Invocation(a[1], c)>>]

\* run_and_return for FnOnce that drops the handle's value
closure_run_and_return_FnOnce_discards(h, a, vec) ==
    ClosureVariant(FALSE, FALSE, TRUE, FALSE, h, a, vec)

\* run_and_return for FnOnce that takes the handle before the arguments
closure_run_and_return_FnOnce_handle_first(h, a, vec) ==
    ClosureVariant(TRUE, FALSE, FALSE, FALSE, h, a, vec)

\* The closure handed to catch_unwind by run_and_return for F: FnOnce.
\* `?` returns early: a missing argument bundle leaves the handle untouched.
closure_run_and_return_FnOnce(h, a, vec) ==
    LET arg == take(a) IN
    IF arg.taken = None
    THEN [unwind |-> FALSE, out |-> Err("CallableArgumentsMissing"),
          handle |-> h, arguments |-> arg.left, vec |-> vec, invoked |-> <<>>]
    ELSE LET hnd == take(h) IN
         IF hnd.taken = None
         THEN [unwind |-> FALSE, out |-> Err("CallableHandleMissing"),
               handle |-> hnd.left, arguments |-> arg.left, vec |-> vec, invoked |-> <<>>]
         ELSE LET c == Call(hnd.taken[1], arg.taken[1], vec) IN
              [unwind |-> c.panicked, out |-> Ok(c.ret),
               handle |-> hnd.left, arguments |-> arg.left, vec |-> c.vec,
               invoked |-> <<Invocation(arg.taken[1], c)>>]

\* The closure of run_and_return for F: FnMut (handle borrowed with as_mut)
closure_run_and_return_FnMut(h, a, vec) ==
    LET arg == take(a) IN
    IF arg.taken = None
    THEN [unwind |-> FALSE, out |-> Err("CallableArgumentsMissing"),
          handle |-> h, arguments |-> arg.left, vec |-> vec, invoked |-> <<>>]
    ELSE LET hnd == as_mut(h) IN
         IF hnd.taken = None
         THEN [unwind |-> FALSE, out |-> Err("CallableHandleMissing"),
               handle |-> hnd.left, arguments |-> arg.left, vec |-> vec, invoked |-> <<>>]
         ELSE LET c == Call(hnd.taken[1], arg.taken[1], vec) IN
              [unwind |-> c.panicked, out |-> Ok(c.ret),
               handle |-> hnd.left, arguments |-> arg.left, vec |-> c.vec,
               invoked |-> <<Invocation(arg.taken[1], c)>>]

\* run_and_return for Fn that moves the handle out
closure_run_and_return_Fn_takes(h, a, vec) ==
    ClosureVariant(FALSE, FALSE, FALSE, FALSE, h, a, vec)

\* The closure of run_and_return for F: Fn
closure_run_and_return_Fn(h, a, vec) ==
    LET arg == take(a) IN
    IF arg.taken = None
    THEN [unwind |-> FALSE, out |-> Err("CallableArgumentsMissing"),
          handle |-> h, arguments |-> arg.left, vec |-> vec, invoked |-> <<>>]
    ELSE LET hnd == as_mut(h) IN
         IF hnd.taken = None
         THEN [unwind |-> FALSE, out |-> Err("CallableHandleMissing"),
               handle |-> hnd.left, arguments |-> arg.left, vec |-> vec, invoked |-> <<>>]
         ELSE LET c == Call(hnd.taken[1], arg.taken[1], vec) IN
              [unwind |-> c.panicked, out |-> Ok(c.ret),
               handle |-> hnd.left, arguments |-> arg.left, vec |-> c.vec,
               invoked |-> <<Invocation(arg.taken[1], c)>>]

\* run for FnOnce with the two context selectors exchanged
closure_run_FnOnce_wrong_selector(h, a, vec) ==
    ClosureVariant(FALSE, FALSE, TRUE, TRUE, h, a, vec)

\* run for FnOnce that takes the handle before it takes the arguments
closure_run_FnOnce_handle_first(h, a, vec) ==
    ClosureVariant(TRUE, FALSE, TRUE, FALSE, h, a, vec)

\* run for FnOnce that borrows the handle and leaves it in the unit
closure_run_FnOnce_borrows(h, a, vec) ==
    ClosureVariant(FALSE, TRUE, TRUE, FALSE, h, a, vec)

\* The closure of run for F: FnOnce: the handle's value is dropped, Ok(())
closure_run_FnOnce(h, a, vec) ==
    LET arg == take(a) IN
    IF arg.taken = None
    THEN [unwind |-> FALSE, out |-> Err("CallableArgumentsMissing"),
          handle |-> h, arguments |-> arg.left, vec |-> vec, invoked |-> <<>>]
    ELSE LET hnd == take(h) IN
         IF hnd.taken = None
         THEN [unwind |-> FALSE, out |-> Err("CallableHandleMissing"),
               handle |-> hnd.left, arguments |-> arg.left, vec |-> vec, invoked |-> <<>>]
         ELSE LET c == Call(hnd.taken[1], arg.taken[1], vec) IN
              [unwind |-> c.panicked, out |-> Ok(UnitValue),
               handle |-> hnd.left, arguments |-> arg.left, vec |-> c.vec,
               invoked |-> <<Invocation(arg.taken[1], c)>>]

\* run for FnMut that moves the handle out, as the FnOnce run does
closure_run_FnMut_takes(h, a, vec) ==
    ClosureVariant(FALSE, FALSE, TRUE, FALSE, h, a, vec)

\* run for FnMut that puts the arguments back when the handle panics
closure_run_FnMut_rebinds_on_panic(h, a, vec) ==
    LET b == ClosureVariant(FALSE, TRUE, TRUE, FALSE, h, a, vec) IN
    IF b.unwind THEN [b EXCEPT !.arguments = a] ELSE b

\* The closure of run for F: FnMut
closure_run_FnMut(h, a, vec) ==
    LET arg == take(a) IN
    IF arg.taken = None
    THEN [unwind |-> FALSE, out |-> Err("CallableArgumentsMissing"),
          handle |-> h, arguments |-> arg.left, vec |-> vec, invoked |-> <<>>]
    ELSE LET hnd == as_mut(h) IN
         IF hnd.taken = None
         THEN [unwind |-> FALSE, out |-> Err("CallableHandleMissing"),
               handle |-> hnd.left, arguments |-> arg.left, vec |-> vec, invoked |-> <<>>]
         ELSE LET c == Call(hnd.taken[1], arg.taken[1], vec) IN
              [unwind |-> c.panicked, out |-> Ok(UnitValue),
               handle |-> hnd.left, arguments |-> arg.left, vec |-> c.vec,
               invoked |-> <<Invocation(arg.taken[1], c)>>]

\* The closure of run for F: Fn
closure_run_Fn(h, a, vec) ==
    LET arg == take(a) IN
    IF arg.taken = None
    THEN [unwind |-> FALSE, out |-> Err("CallableArgumentsMissing"),
          handle |-> h, arguments |-> arg.left, vec |-> vec, invoked |-> <<>>]
    ELSE LET hnd == as_mut(h) IN
         IF hnd.taken = None
         THEN [unwind |-> FALSE, out |-> Err("CallableHandleMissing"),
               handle |-> hnd.left, arguments |-> arg.left, vec |-> vec, invoked |-> <<>>]
         ELSE LET c == Call(hnd.taken[1], arg.taken[1], vec) IN
              [unwind |-> c.panicked, out |-> Ok(UnitValue),
               handle |-> hnd.left, arguments |-> arg.left, vec |-> c.vec,
               invoked |-> <<Invocation(arg.taken[1], c)>>]

\* a call with no catch_unwind around it: the panic reaches the caller
catch_unwind_absent(body) ==
    [escaped |-> body.unwind, output |-> Ok(body.out)]

\* panic::catch_unwind(AssertUnwindSafe(closure)): a panic that unwinds out
\* of the closure becomes Err(payload); nothing escapes to the caller
catch_unwind(body) ==
    IF body.unwind
    THEN [escaped |-> FALSE, output |-> Err("payload")]
    ELSE [escaped |-> FALSE, output |-> Ok(body.out)]

\* a match that turns a caught panic into a success
match_output_swallows(outcome) ==
    IF outcome.tag = "Ok" THEN outcome.value ELSE Ok(UnitValue)

\* match output { Ok(inner) => inner, Err(_inner) => CallablePanicked.fail() }
\* followed by map_err, which boxes the error and keeps its variant
match_output(outcome) ==
    IF outcome.tag = "Ok" THEN outcome.value ELSE Err("CallablePanicked")

(***************************************************************************)
(* Operations                                                              *)
(***************************************************************************)
RunCalls == {"run", "run_and_return"}

\* the last call was not args
NoArgsCall == [called |-> FALSE]

\* the part all six run / run_and_return implementations share: the closure
\* has run inside catch_unwind, the outcome is returned to the caller
Return(body, name) ==
    LET caught == catch_unwind(body) IN
    /\ crashed' = caught.escaped
    /\ result' = IF caught.escaped THEN result ELSE match_output(caught.output)
    /\ handle' = body.handle
    /\ arguments' = body.arguments
    /\ vector' = body.vec
    /\ calls' = calls \o body.invoked
    /\ lastCall' = name
    /\ argsCall' = NoArgsCall
    /\ UNCHANGED <<F, argsHistory, callbacks>>
    /\ UNCHANGED <<taskVars, formatVars, loggedVars, jobVars, stringVars, logVars, setupVars>>

\* CallableCreate::new for a handle that takes arguments
new(op, kind) ==
    /\ ~crashed
    /\ ~NoArgs(op)
    /\ F' = [op |-> op, kind |-> kind]
    /\ handle' = Some(op)
    /\ arguments' = None
    /\ result' = NoResult
    /\ lastCall' = "new"
    /\ calls' = <<>>
    /\ argsHistory' = "never"
    /\ argsCall' = NoArgsCall
    /\ callbacks' = <<>>
    /\ UNCHANGED <<vector, crashed>>
    /\ UNCHANGED <<taskVars, formatVars, loggedVars, jobVars, stringVars, logVars, setupVars>>

\* the specialised new binding nothing, as the general new does
new_noargs_arguments_absent == None

\* the arguments CallableCreate<(), R, F>::new binds
new_noargs_arguments == Some(UnitBundle)

\* CallableCreate<(), R, F>::new for a handle that takes no arguments
new_noargs(op, kind) ==
    /\ ~crashed
    /\ NoArgs(op)
    /\ F' = [op |-> op, kind |-> kind]
    /\ handle' = Some(op)
    /\ arguments' = new_noargs_arguments
    /\ result' = NoResult
    /\ lastCall' = "new"
    /\ calls' = <<>>
    /\ argsHistory' = "never"
    /\ argsCall' = NoArgsCall
    /\ callbacks' = <<>>
    /\ UNCHANGED <<vector, crashed>>
    /\ UNCHANGED <<taskVars, formatVars, loggedVars, jobVars, stringVars, logVars, setupVars>>

\* what keeps the explored state finite: no bundle is bound once the unit
\* has had MaxCalls invocations or the vector a push would overflow is full
WithinBounds ==
    /\ Len(calls) < MaxCalls
    /\ F.op = "push" => Len(vector) < MaxVecLen

\* an args that binds only when nothing is bound yet
args_keeps_earlier(a) ==
    /\ ~crashed
    /\ ~NoArgs(F.op)
    /\ WithinBounds
    /\ arguments' = IF arguments = None THEN Some(a) ELSE arguments
    /\ lastCall' = "args"
    /\ argsHistory' = IF argsHistory = "rebound" \/ Len(calls) >= 1 THEN "rebound" ELSE "bound"
    /\ argsCall' = [called |-> TRUE, input |-> a, before |-> arguments]
    /\ UNCHANGED <<F, handle, vector, result, calls, crashed, callbacks>>
    /\ UNCHANGED <<taskVars, formatVars, loggedVars, jobVars, stringVars, logVars, setupVars>>

\* CallableCreate::args
args(a) ==
    /\ ~crashed
    /\ ~NoArgs(F.op)
    /\ WithinBounds
    /\ arguments' = Some(a)
    /\ lastCall' = "args"
    /\ argsHistory' = IF argsHistory = "rebound" \/ Len(calls) >= 1 THEN "rebound" ELSE "bound"
    /\ argsCall' = [called |-> TRUE, input |-> a, before |-> arguments]
    /\ UNCHANGED <<F, handle, vector, result, calls, crashed, callbacks>>
    /\ UNCHANGED <<taskVars, formatVars, loggedVars, jobVars, stringVars, logVars, setupVars>>

\* CallableCreate<(), R, F>::args
args_noargs(a) ==
    /\ ~crashed
    /\ NoArgs(F.op)
    /\ WithinBounds
    /\ arguments' = Some(a)
    /\ lastCall' = "args"
    /\ argsHistory' = IF argsHistory = "rebound" \/ Len(calls) >= 1 THEN "rebound" ELSE "bound"
    /\ argsCall' = [called |-> TRUE, input |-> a, before |-> arguments]
    /\ UNCHANGED <<F, handle, vector, result, calls, crashed, callbacks>>
    /\ UNCHANGED <<taskVars, formatVars, loggedVars, jobVars, stringVars, logVars, setupVars>>

\* RunAndReturn::run_and_return, F: FnOnce
run_and_return_FnOnce ==
    /\ ~crashed
    /\ F.kind = "FnOnce"
    /\ Return(closure_run_and_return_FnOnce(handle, arguments, vector), "run_and_return")

\* RunAndReturn::run_and_return, F: FnMut
run_and_return_FnMut ==
    /\ ~crashed
    /\ F.kind = "FnMut"
    /\ Return(closure_run_and_return_FnMut(handle, arguments, vector), "run_and_return")

\* RunAndReturn::run_and_return, F: Fn
run_and_return_Fn ==
    /\ ~crashed
    /\ F.kind = "Fn"
    /\ Return(closure_run_and_return_Fn(handle, arguments, vector), "run_and_return")

\* Run::run, F: FnOnce
run_FnOnce ==
    /\ ~crashed
    /\ F.kind = "FnOnce"
    /\ Return(closure_run_FnOnce(handle, arguments, vector), "run")

\* Run::run, F: FnMut
run_FnMut ==
    /\ ~crashed
    /\ F.kind = "FnMut"
    /\ Return(closure_run_FnMut(handle, arguments, vector), "run")

\* Run::run, F: Fn
run_Fn ==
    /\ ~crashed
    /\ F.kind = "Fn"
    /\ Return(closure_run_Fn(handle, arguments, vector), "run")

\* the implementation of run_and_return that specialisation selects for F
RunAndReturnClosure(kind, h, a, vec) ==
    CASE kind = "FnOnce" -> closure_run_and_return_FnOnce(h, a, vec)
      [] kind = "FnMut" -> closure_run_and_return_FnMut(h, a, vec)
      [] OTHER -> closure_run_and_return_Fn(h, a, vec)

\* the implementation of run that specialisation selects for F
RunClosure(kind, h, a, vec) ==
    CASE kind = "FnOnce" -> closure_run_FnOnce(h, a, vec)
      [] kind = "FnMut" -> closure_run_FnMut(h, a, vec)
      [] OTHER -> closure_run_Fn(h, a, vec)

\* RunAndCallback: run_and_return, then the callback on the value of a
\* success; a failure is returned and the callback is not invoked.  The
\* callback here records the value it is given.
run_and_then ==
    /\ ~crashed
    /\ LET body == RunAndReturnClosure(F.kind, handle, arguments, vector)
           caught == catch_unwind(body)
           outcome == match_output(caught.output)
           succeeded == ~caught.escaped /\ outcome.tag = "Ok"
       IN  /\ crashed' = caught.escaped
           /\ callbacks' = IF succeeded THEN Append(callbacks, outcome.value) ELSE callbacks
           /\ result' = IF caught.escaped THEN result
                         ELSE IF succeeded THEN Ok(UnitValue) ELSE outcome
           /\ handle' = body.handle
           /\ arguments' = body.arguments
           /\ vector' = body.vec
           /\ calls' = calls \o body.invoked
    /\ lastCall' = "run_and_then"
    /\ argsCall' = NoArgsCall
    /\ UNCHANGED <<F, argsHistory>>
    /\ UNCHANGED <<taskVars, formatVars, loggedVars, jobVars, stringVars, logVars, setupVars>>

\* the counters and the threads at process start
TaskInit ==
    /\ TASK_ID = 0
    /\ TASK_ID_GENERATOR = 0
    /\ pc = [t \in Threads |-> "idle"]
    /\ ret = [t \in Threads |-> 0]
    /\ issued = <<>>

\* LoggingFormat::new()
FormatInit ==
    /\ format = <<>>
    /\ formatCall = [op |-> "new"]
    /\ shared = FALSE

\* no LoggedCallable constructed yet
LoggedInit ==
    /\ task_id = 0
    /\ logging_data = None
    /\ logging_format = None
    /\ output = None
    /\ Rtraits = "none"
    /\ rendered = <<>>
    /\ emitted = <<>>

\* an empty Job
JobInit ==
    /\ tasks = <<>>
    /\ ran = <<>>
    /\ enqueued = <<>>

\* the value of the crate's test, try_string_from not called yet
StringInit ==
    /\ value_given = [type |-> "isize", v |-> 5]
    /\ string_returned = None
    /\ stringCall = FALSE

\* LoggingPreferences::default()
LoggingPreferences_default ==
    [label |-> <<>>,
     entry_level |-> Some([input_level |-> Some("Debug"), output_level |-> Some("Debug")])]

\* a Loggable with default preferences, LoggingData::new() and the default prefixes
LogInit ==
    /\ preferences = LoggingPreferences_default
    /\ loggable_data = [input |-> <<>>, output |-> <<>>]
    /\ prefixes = [input_prefix |-> <<>>, output_prefix |-> <<>>]
    /\ logCall = [op |-> "none"]

\* no thread has called setup_logging
SetupInit ==
    /\ INIT = "incomplete"
    /\ logger = <<>>
    /\ setup_pc = [t \in Threads |-> "idle"]
    /\ verbosity = [t \in Threads |-> "Off"]

\* a unit as new leaves it, next to the outside vector of a test
CallableInit ==
    /\ vector \in InitVectors
    /\ F \in [op : Ops, kind : Kinds]
    /\ handle = Some(F.op)
    /\ arguments = IF NoArgs(F.op) THEN new_noargs_arguments ELSE None
    /\ result = NoResult
    /\ lastCall = "new"
    /\ calls = <<>>
    /\ argsHistory = "never"
    /\ crashed = FALSE
    /\ argsCall = NoArgsCall
    /\ callbacks = <<>>

Init == CallableInit /\ TaskInit /\ FormatInit /\ LoggedInit /\ JobInit /\ StringInit /\ LogInit /\ SetupInit

Next ==
    \/ \E op \in Ops, kind \in Kinds : new(op, kind)
    \/ \E op \in Ops, kind \in Kinds : new_noargs(op, kind)
    \/ \E a \in Bundles(F.op) : args(a)
    \/ \E a \in Bundles(F.op) : args_noargs(a)
    \/ run_and_return_FnOnce
    \/ run_and_return_FnMut
    \/ run_and_return_Fn
    \/ run_FnOnce
    \/ run_FnMut
    \/ run_Fn
    \/ run_and_then

Spec == Init /\ [][Next]_vars

(***************************************************************************)
(* Task IDs: lib.rs TASK_ID and task.rs TASK_ID_GENERATOR                  *)
(***************************************************************************)
\* a fetch_add that stores back what it read
fetch_add_no_increment(v, n) == [previous |-> v, stored |-> v]

\* a fetch_add that returns the value it stored
fetch_add_returns_new(v, n) ==
    [previous |-> (v + n) % UsizeModulus, stored |-> (v + n) % UsizeModulus]

\* a fetch_add that stays at the greatest value instead of wrapping
fetch_add_saturating(v, n) ==
    [previous |-> v, stored |-> IF v + n >= UsizeModulus THEN UsizeModulus - 1 ELSE v + n]

\* AtomicUsize::fetch_add(n, Relaxed): returns the previous value and
\* stores the sum, wrapping around on overflow
fetch_add(v, n) == [previous |-> v, stored |-> (v + n) % UsizeModulus]

\* a thread enters crate::generate_task_id (as LoggedCallable's new does)
call_generate_task_id(t) ==
    /\ pc[t] = "idle"
    /\ Len(issued) < MaxIssued
    /\ pc' = [pc EXCEPT ![t] = "lib"]
    /\ UNCHANGED <<TASK_ID, TASK_ID_GENERATOR, ret, issued>>
    /\ UNCHANGED <<callableVars, formatVars, loggedVars, jobVars, stringVars, logVars, setupVars>>

\* a thread enters task::generate_task_id
call_task_generate_task_id(t) ==
    /\ pc[t] = "idle"
    /\ Len(issued) < MaxIssued
    /\ pc' = [pc EXCEPT ![t] = "task"]
    /\ UNCHANGED <<TASK_ID, TASK_ID_GENERATOR, ret, issued>>
    /\ UNCHANGED <<callableVars, formatVars, loggedVars, jobVars, stringVars, logVars, setupVars>>

\* a generate_task_id that loads the counter and stores it back in two steps
generate_task_id_load_then_store(t) ==
    \/ /\ pc[t] = "lib"
       /\ ret' = [ret EXCEPT ![t] = TASK_ID]
       /\ pc' = [pc EXCEPT ![t] = "lib_loaded"]
       /\ UNCHANGED <<TASK_ID, TASK_ID_GENERATOR, issued>>
       /\ UNCHANGED <<callableVars, formatVars, loggedVars, jobVars, stringVars, logVars, setupVars>>
    \/ /\ pc[t] = "lib_loaded"
       /\ TASK_ID' = (ret[t] + 1) % UsizeModulus
       /\ issued' = Append(issued, [counter |-> "TASK_ID", id |-> ret[t], thread |-> t])
       /\ pc' = [pc EXCEPT ![t] = "idle"]
       /\ UNCHANGED <<TASK_ID_GENERATOR, ret>>
       /\ UNCHANGED <<callableVars, formatVars, loggedVars, jobVars, stringVars, logVars, setupVars>>

\* lib.rs generate_task_id: TASK_ID.fetch_add(1, Ordering::Relaxed), one
\* atomic read-modify-write
generate_task_id(t) ==
    /\ pc[t] = "lib"
    /\ LET f == fetch_add(TASK_ID, 1) IN
       /\ TASK_ID' = f.stored
       /\ ret' = [ret EXCEPT ![t] = f.previous]
       /\ issued' = Append(issued, [counter |-> "TASK_ID", id |-> f.previous, thread |-> t])
    /\ pc' = [pc EXCEPT ![t] = "idle"]
    /\ UNCHANGED TASK_ID_GENERATOR
    /\ UNCHANGED <<callableVars, formatVars, loggedVars, jobVars, stringVars, logVars, setupVars>>

\* task.rs generate_task_id: TASK_ID_GENERATOR.fetch_add(1, Ordering::Relaxed)
task_generate_task_id(t) ==
    /\ pc[t] = "task"
    /\ LET f == fetch_add(TASK_ID_GENERATOR, 1) IN
       /\ TASK_ID_GENERATOR' = f.stored
       /\ ret' = [ret EXCEPT ![t] = f.previous]
       /\ issued' = Append(issued, [counter |-> "TASK_ID_GENERATOR", id |-> f.previous, thread |-> t])
    /\ pc' = [pc EXCEPT ![t] = "idle"]
    /\ UNCHANGED TASK_ID
    /\ UNCHANGED <<callableVars, formatVars, loggedVars, jobVars, stringVars, logVars, setupVars>>

\* one constructed unit that nothing is called on
CallableIdle ==
    /\ vector = <<>>
    /\ F = [op |-> "pop", kind |-> "FnOnce"]
    /\ handle = Some("pop")
    /\ arguments = None
    /\ result = NoResult
    /\ lastCall = "new"
    /\ calls = <<>>
    /\ argsHistory = "never"
    /\ crashed = FALSE
    /\ argsCall = NoArgsCall
    /\ callbacks = <<>>

TaskSpecInit == CallableIdle /\ TaskInit /\ FormatInit /\ LoggedInit /\ JobInit /\ StringInit /\ LogInit /\ SetupInit

TaskNext ==
    \/ \E t \in Threads : call_generate_task_id(t)
    \/ \E t \in Threads : call_task_generate_task_id(t)
    \/ \E t \in Threads : generate_task_id(t)
    \/ \E t \in Threads : task_generate_task_id(t)

TaskSpec == TaskSpecInit /\ [][TaskNext]_vars

\* the process at any point of its life: the counters hold the number of
\* IDs drawn so far, modulo 2^w; the IDs drawn from here on are recorded
WrapSpecInit ==
    /\ CallableIdle /\ FormatInit /\ LoggedInit /\ JobInit /\ StringInit /\ LogInit /\ SetupInit
    /\ TASK_ID \in 0..(UsizeModulus - 1)
    /\ TASK_ID_GENERATOR \in 0..(UsizeModulus - 1)
    /\ pc = [t \in Threads |-> "idle"]
    /\ ret = [t \in Threads |-> 0]
    /\ issued = <<>>

WrapSpec == WrapSpecInit /\ [][TaskNext]_vars

(***************************************************************************)
(* LoggingFormat                                                           *)
(***************************************************************************)
\* a String is the sequence of its characters
ArbitraryStrings == {<<":", " ">>, <<"=">>}

\* LoggingFormatToken
Handle == [token |-> "Handle"]
Args == [token |-> "Args"]
Output == [token |-> "Output"]
ArbitraryString(str) == [token |-> "ArbitraryString", string |-> str]

\* a push that puts the token in front
push_front(vec, token) == <<token>> \o vec

\* Vec::push, reached through DerefMut
push(vec, token) == Append(vec, token)

\* LoggingFormat::new
LoggingFormat_new ==
    /\ format' = <<>>
    /\ formatCall' = [op |-> "new"]
    /\ shared' = FALSE
    /\ UNCHANGED <<callableVars, taskVars, loggedVars, jobVars, stringVars, logVars, setupVars>>

\* the builder methods take the format by value: not while it is borrowed
CanAppend == ~shared /\ Len(format) < MaxFormatLen

\* LoggingFormat::append_handle
append_handle ==
    /\ CanAppend
    /\ format' = push(format, Handle)
    /\ formatCall' = [op |-> "append_handle"]
    /\ UNCHANGED shared
    /\ UNCHANGED <<callableVars, taskVars, loggedVars, jobVars, stringVars, logVars, setupVars>>

\* LoggingFormat::append_args
append_args ==
    /\ CanAppend
    /\ format' = push(format, Args)
    /\ formatCall' = [op |-> "append_args"]
    /\ UNCHANGED shared
    /\ UNCHANGED <<callableVars, taskVars, loggedVars, jobVars, stringVars, logVars, setupVars>>

\* LoggingFormat::append_output
append_output ==
    /\ CanAppend
    /\ format' = push(format, Output)
    /\ formatCall' = [op |-> "append_output"]
    /\ UNCHANGED shared
    /\ UNCHANGED <<callableVars, taskVars, loggedVars, jobVars, stringVars, logVars, setupVars>>

\* LoggingFormat::append_string
append_string(given_string) ==
    /\ CanAppend
    /\ format' = push(format, ArbitraryString(given_string))
    /\ formatCall' = [op |-> "append_string", given_string |-> given_string]
    /\ UNCHANGED shared
    /\ UNCHANGED <<callableVars, taskVars, loggedVars, jobVars, stringVars, logVars, setupVars>>

\* DerefMut::deref_mut hands out &mut Vec<LoggingFormatToken>: Vec::pop on it
deref_mut_pop ==
    /\ ~shared
    /\ format # <<>>
    /\ format' = Front(format)
    /\ formatCall' = [op |-> "deref_mut"]
    /\ UNCHANGED shared
    /\ UNCHANGED <<callableVars, taskVars, loggedVars, jobVars, stringVars, logVars, setupVars>>

\* DerefMut::deref_mut: Vec::clear on the vector it hands out
deref_mut_clear ==
    /\ ~shared
    /\ format # <<>>
    /\ format' = <<>>
    /\ formatCall' = [op |-> "deref_mut"]
    /\ UNCHANGED shared
    /\ UNCHANGED <<callableVars, taskVars, loggedVars, jobVars, stringVars, logVars, setupVars>>

\* a shared reference &'a LoggingFormat is taken (LoggedCallable holds one);
\* while it lives the borrow checker admits no &mut and no move
share ==
    /\ ~shared
    /\ shared' = TRUE
    /\ formatCall' = [op |-> "share"]
    /\ UNCHANGED format
    /\ UNCHANGED <<callableVars, taskVars, loggedVars, jobVars, stringVars, logVars, setupVars>>

FormatSpecInit == CallableIdle /\ TaskInit /\ FormatInit /\ LoggedInit /\ JobInit /\ StringInit /\ LogInit /\ SetupInit

FormatNext ==
    \/ LoggingFormat_new
    \/ append_handle
    \/ append_args
    \/ append_output
    \/ \E given_string \in ArbitraryStrings : append_string(given_string)
    \/ deref_mut_pop
    \/ deref_mut_clear
    \/ share

FormatSpec == FormatSpecInit /\ [][FormatNext]_vars

(***************************************************************************)
(* LoggedCallable: the draft kept in callable.rs                           *)
(***************************************************************************)
\* the units built after the first one
MaxUnits == 2

\* the strings handed to new and args as descriptions
HandleStrings == {<<"v", ".", "f">>}
ArgumentStrings == {<<"(", " ", "7", ")">>}

\* the formats handed to the unit by reference, as the builder makes them
LoggingFormats ==
    {<<Handle, Args, ArbitraryString(<<"=">>), Output>>,
     <<Output, ArbitraryString(<<":", " ">>), Handle>>}

\* LoggingData { handle, arguments }
LoggingData(h, a) == [handle |-> h, arguments |-> a]

\* the literal "N.A."
NA == <<"N", ".", "A", ".">>

\* which generate_log specialisation the return type of the handle selects:
\* isize is Display + Debug, Option<isize> and () are Debug only; "none" is
\* a return type of the caller's that carries the value and implements neither
ReturnTraits(op) ==
    {"none"} \cup (IF op \in {"remove", "len"} THEN {"Display"} ELSE {"Debug"})

DecimalDigits == <<"0", "1", "2", "3", "4", "5", "6", "7", "8", "9">>

\* the decimal text of an integer, as the Display and Debug of isize give it
RECURSIVE to_string(_)
to_string(n) ==
    IF n < 0 THEN <<"-">> \o to_string(0 - n)
    ELSE IF n < 10 THEN <<DecimalDigits[n + 1]>>
    ELSE to_string(n \div 10) \o <<DecimalDigits[(n % 10) + 1]>>

\* format!("{:?}", return_value)
format_Debug(v) ==
    CASE v.type = "unit" -> <<"(", ")">>
      [] v.type = "isize" -> to_string(v.v)
      [] v.type = "Some" -> <<"S", "o", "m", "e", "(">> \o to_string(v.v) \o <<")">>
      [] OTHER -> <<"N", "o", "n", "e">>

\* format!("{}", return_value)
format_Display(v) == to_string(v.v)

\* the Ok arm of the Output token in the three specialisations
return_string(traits, v) ==
    CASE traits = "Display" -> format_Display(v)
      [] traits = "Debug" -> format_Debug(v)
      [] OTHER -> NA

\* the match on the token inside the fold
match_token(traits, token, data, out) ==
    CASE token.token = "Handle" ->
           IF data # None THEN data[1].handle ELSE NA
      [] token.token = "Args" ->
           IF data # None THEN data[1].arguments ELSE NA
      [] token.token = "ArbitraryString" -> token.string
      [] OTHER ->
           IF out # None
           THEN IF out[1].tag = "Ok" THEN return_string(traits, out[1].value) ELSE NA
           ELSE NA

\* a push_str that puts the text in front of the accumulator
push_str_front(accumulator_string, text) == text \o accumulator_string

\* String::push_str
push_str(accumulator_string, text) == accumulator_string \o text

\* logging_format.iter().fold(String::new(), ..)
RECURSIVE fold(_, _, _, _, _)
fold(tokens, accumulator_string, traits, data, out) ==
    IF tokens = <<>> THEN accumulator_string
    ELSE fold(Tail(tokens),
              push_str(accumulator_string, match_token(traits, Head(tokens), data, out)),
              traits, data, out)

\* LoggedCallableLog::generate_log on the fields of the unit
generate_log(traits, fmt, data, out) ==
    IF fmt # None THEN fold(fmt[1], <<>>, traits, data, out) ELSE NA

\* the closure of run for F: FnOnce that hands back () for the value
closure_Runnable_run_FnOnce_discards(h, a, vec) ==
    LET b == ClosureVariant(FALSE, FALSE, TRUE, FALSE, h, a, vec) IN
    [unwind |-> b.unwind \/ b.out.tag = "Err", out |-> UnitValue, handle |-> b.handle,
     arguments |-> b.arguments, vec |-> b.vec, invoked |-> b.invoked]

\* The closure Runnable::run hands to catch_unwind for F: FnOnce: expect
\* panics where the option is None, and the panic unwinds out of the closure
closure_Runnable_run_FnOnce(h, a, vec) ==
    LET arg == take(a) IN
    IF arg.taken = None
    THEN [unwind |-> TRUE, out |-> UnitValue,
          handle |-> h, arguments |-> arg.left, vec |-> vec, invoked |-> <<>>]
    ELSE LET hnd == take(h) IN
         IF hnd.taken = None
         THEN [unwind |-> TRUE, out |-> UnitValue,
               handle |-> hnd.left, arguments |-> arg.left, vec |-> vec, invoked |-> <<>>]
         ELSE LET c == Call(hnd.taken[1], arg.taken[1], vec) IN
              [unwind |-> c.panicked, out |-> c.ret,
               handle |-> hnd.left, arguments |-> arg.left, vec |-> c.vec,
               invoked |-> <<Invocation(arg.taken[1], c)>>]

\* The closure of Runnable::run for F: FnMut
closure_Runnable_run_FnMut(h, a, vec) ==
    LET arg == take(a) IN
    IF arg.taken = None
    THEN [unwind |-> TRUE, out |-> UnitValue,
          handle |-> h, arguments |-> arg.left, vec |-> vec, invoked |-> <<>>]
    ELSE LET hnd == as_mut(h) IN
         IF hnd.taken = None
         THEN [unwind |-> TRUE, out |-> UnitValue,
               handle |-> hnd.left, arguments |-> arg.left, vec |-> vec, invoked |-> <<>>]
         ELSE LET c == Call(hnd.taken[1], arg.taken[1], vec) IN
              [unwind |-> c.panicked, out |-> c.ret,
               handle |-> hnd.left, arguments |-> arg.left, vec |-> c.vec,
               invoked |-> <<Invocation(arg.taken[1], c)>>]

\* The closure of Runnable::run for F: Fn
closure_Runnable_run_Fn(h, a, vec) ==
    LET arg == take(a) IN
    IF arg.taken = None
    THEN [unwind |-> TRUE, out |-> UnitValue,
          handle |-> h, arguments |-> arg.left, vec |-> vec, invoked |-> <<>>]
    ELSE LET hnd == as_mut(h) IN
         IF hnd.taken = None
         THEN [unwind |-> TRUE, out |-> UnitValue,
               handle |-> hnd.left, arguments |-> arg.left, vec |-> vec, invoked |-> <<>>]
         ELSE LET c == Call(hnd.taken[1], arg.taken[1], vec) IN
              [unwind |-> c.panicked, out |-> c.ret,
               handle |-> hnd.left, arguments |-> arg.left, vec |-> c.vec,
               invoked |-> <<Invocation(arg.taken[1], c)>>]

\* what the three Runnable::run share after the closure: generate_log is
\* called and its String dropped, then the outcome is stored; run returns ()
Runnable_run(body) ==
    LET caught == catch_unwind(body) IN
    /\ crashed' = caught.escaped
    /\ rendered' = generate_log(Rtraits, logging_format, logging_data, output)
    /\ output' = Some(caught.output)
    /\ handle' = body.handle
    /\ arguments' = body.arguments
    /\ vector' = body.vec
    /\ calls' = calls \o body.invoked
    /\ lastCall' = "Runnable::run"
    /\ argsCall' = NoArgsCall
    /\ UNCHANGED <<F, result, argsHistory, callbacks>>
    /\ UNCHANGED <<task_id, logging_data, logging_format, Rtraits, emitted>>
    /\ UNCHANGED <<taskVars, formatVars, jobVars, stringVars, logVars, setupVars>>

\* the part the two new share: a task ID is drawn, the handle description
\* stored, no format, no output
LoggedCallable_create(op, kind, traits, handle_string, bound, arguments_string) ==
    /\ ~crashed
    /\ Len(issued) < MaxUnits
    /\ traits \in ReturnTraits(op)
    /\ F' = [op |-> op, kind |-> kind]
    /\ handle' = Some(op)
    /\ arguments' = bound
    /\ output' = None
    /\ LET f == fetch_add(TASK_ID, 1) IN
       /\ task_id' = f.previous
       /\ TASK_ID' = f.stored
       /\ issued' = Append(issued, [counter |-> "TASK_ID", id |-> f.previous, thread |-> 1])
    /\ logging_data' = Some(LoggingData(handle_string, arguments_string))
    /\ logging_format' = None
    /\ Rtraits' = traits
    /\ result' = NoResult
    /\ lastCall' = "new"
    /\ calls' = <<>>
    /\ argsHistory' = "never"
    /\ argsCall' = NoArgsCall
    /\ callbacks' = <<>>
    /\ rendered' = <<>>
    /\ UNCHANGED <<vector, crashed, emitted>>
    /\ UNCHANGED <<TASK_ID_GENERATOR, pc, ret>>
    /\ UNCHANGED <<formatVars, jobVars, stringVars, logVars, setupVars>>

\* LoggedCallableCreate::new
LoggedCallable_new(op, kind, traits, handle_string) ==
    /\ ~NoArgs(op)
    /\ LoggedCallable_create(op, kind, traits, handle_string, None, <<>>)

\* LoggedCallableCreate<(), R, F>::new
LoggedCallable_new_noargs(op, kind, traits, handle_string) ==
    /\ NoArgs(op)
    /\ LoggedCallable_create(op, kind, traits, handle_string, Some(UnitBundle), <<"(", ")">>)

\* the body the two args share
LoggedCallable_bind(a, arguments_string) ==
    /\ ~crashed
    /\ WithinBounds
    /\ arguments' = Some(a)
    /\ logging_data' = IF logging_data # None
                       THEN Some([logging_data[1] EXCEPT !.arguments = arguments_string])
                       ELSE logging_data
    /\ lastCall' = "args"
    /\ argsHistory' = IF argsHistory = "rebound" \/ Len(calls) >= 1 THEN "rebound" ELSE "bound"
    /\ argsCall' = [called |-> TRUE, input |-> a, before |-> arguments,
                    arguments_string |-> arguments_string]
    /\ UNCHANGED <<F, handle, vector, result, calls, crashed, callbacks>>
    /\ rendered' = <<>>
    /\ UNCHANGED <<task_id, logging_format, output, Rtraits, emitted>>
    /\ UNCHANGED <<taskVars, formatVars, jobVars, stringVars, logVars, setupVars>>

\* LoggedCallableCreate::args
LoggedCallable_args(a, arguments_string) ==
    /\ ~NoArgs(F.op)
    /\ LoggedCallable_bind(a, arguments_string)

\* LoggedCallableCreate<(), R, F>::args
LoggedCallable_args_noargs(a, arguments_string) ==
    /\ NoArgs(F.op)
    /\ LoggedCallable_bind(a, arguments_string)

\* setFormat: the unit is given a reference to a format; what the reference
\* reads cannot change while the unit holds it
set_format(logging_format_given) ==
    /\ ~crashed
    /\ logging_format' = Some(logging_format_given)
    /\ lastCall' = "set_format"
    /\ argsCall' = NoArgsCall
    /\ UNCHANGED <<F, handle, arguments, vector, result, calls, argsHistory, crashed, callbacks>>
    /\ rendered' = <<>>
    /\ UNCHANGED <<task_id, logging_data, output, Rtraits, emitted>>
    /\ UNCHANGED <<taskVars, formatVars, jobVars, stringVars, logVars, setupVars>>

\* Runnable::run, F: FnOnce
Runnable_run_FnOnce ==
    /\ ~crashed
    /\ F.kind = "FnOnce"
    /\ Runnable_run(closure_Runnable_run_FnOnce(handle, arguments, vector))

\* Runnable::run, F: FnMut
Runnable_run_FnMut ==
    /\ ~crashed
    /\ F.kind = "FnMut"
    /\ Runnable_run(closure_Runnable_run_FnMut(handle, arguments, vector))

\* Runnable::run, F: Fn
Runnable_run_Fn ==
    /\ ~crashed
    /\ F.kind = "Fn"
    /\ Runnable_run(closure_Runnable_run_Fn(handle, arguments, vector))

\* LoggedCallableLog::generate_log called by the holder of the unit
LoggedCallable_generate_log ==
    /\ ~crashed
    /\ rendered' = generate_log(Rtraits, logging_format, logging_data, output)
    /\ lastCall' = "generate_log"
    /\ argsCall' = NoArgsCall
    /\ UNCHANGED <<F, handle, arguments, vector, result, calls, argsHistory, crashed, callbacks>>
    /\ UNCHANGED <<task_id, logging_data, logging_format, output, Rtraits, emitted>>
    /\ UNCHANGED <<taskVars, formatVars, jobVars, stringVars, logVars, setupVars>>

\* the first unit as new leaves it, next to the outside vector of a test
LoggedSpecInit ==
    /\ vector \in InitVectors
    /\ F \in [op : Ops, kind : Kinds]
    /\ handle = Some(F.op)
    /\ arguments = IF NoArgs(F.op) THEN Some(UnitBundle) ELSE None
    /\ result = NoResult
    /\ lastCall = "new"
    /\ calls = <<>>
    /\ argsHistory = "never"
    /\ crashed = FALSE
    /\ argsCall = NoArgsCall
    /\ callbacks = <<>>
    /\ task_id = fetch_add(0, 1).previous
    /\ TASK_ID = fetch_add(0, 1).stored
    /\ TASK_ID_GENERATOR = 0
    /\ pc = [t \in Threads |-> "idle"]
    /\ ret = [t \in Threads |-> 0]
    /\ issued = <<[counter |-> "TASK_ID", id |-> task_id, thread |-> 1]>>
    /\ \E handle_string \in HandleStrings :
         logging_data = Some(LoggingData(handle_string,
                                         IF NoArgs(F.op) THEN <<"(", ")">> ELSE <<>>))
    /\ logging_format = None
    /\ output = None
    /\ Rtraits \in ReturnTraits(F.op)
    /\ rendered = <<>>
    /\ emitted = <<>>
    /\ FormatInit
    /\ JobInit
    /\ StringInit
    /\ LogInit
    /\ SetupInit

LoggedNext ==
    \/ \E op \in Ops, kind \in Kinds, traits \in {"none", "Debug", "Display"},
          handle_string \in HandleStrings :
         LoggedCallable_new(op, kind, traits, handle_string)
    \/ \E op \in Ops, kind \in Kinds, traits \in {"none", "Debug", "Display"},
          handle_string \in HandleStrings :
         LoggedCallable_new_noargs(op, kind, traits, handle_string)
    \/ \E a \in Bundles(F.op), arguments_string \in ArgumentStrings :
         LoggedCallable_args(a, arguments_string)
    \/ \E a \in Bundles(F.op), arguments_string \in ArgumentStrings :
         LoggedCallable_args_noargs(a, arguments_string)
    \/ \E logging_format_given \in LoggingFormats : set_format(logging_format_given)
    \/ Runnable_run_FnOnce
    \/ Runnable_run_FnMut
    \/ Runnable_run_Fn
    \/ LoggedCallable_generate_log

LoggedSpec == LoggedSpecInit /\ [][LoggedNext]_vars

(***************************************************************************)
(* Job: a queue of runnables                                               *)
(***************************************************************************)
\* the most entries handed to one Job
MaxQueue == 4

\* what a Box<dyn Runnable> in the queue can be
Runnables == {"callable", "instruction"}

\* Job with an empty queue
Job_new ==
    /\ tasks' = <<>>
    /\ ran' = <<>>
    /\ enqueued' = <<>>
    /\ UNCHANGED <<callableVars, taskVars, formatVars, loggedVars, stringVars, logVars, setupVars>>

\* an enqueue that puts the runnable at the head
enqueue_at_head(runnable) ==
    LET entry == [id |-> Len(enqueued) + 1, runnable |-> runnable] IN
    /\ Len(enqueued) < MaxQueue
    /\ tasks' = <<entry>> \o tasks
    /\ enqueued' = Append(enqueued, entry)
    /\ UNCHANGED ran
    /\ UNCHANGED <<callableVars, taskVars, formatVars, loggedVars, stringVars, logVars, setupVars>>

\* enqueue(runnable): appends to the tail
enqueue(runnable) ==
    LET entry == [id |-> Len(enqueued) + 1, runnable |-> runnable] IN
    /\ Len(enqueued) < MaxQueue
    /\ tasks' = Append(tasks, entry)
    /\ enqueued' = Append(enqueued, entry)
    /\ UNCHANGED ran
    /\ UNCHANGED <<callableVars, taskVars, formatVars, loggedVars, stringVars, logVars, setupVars>>

\* the head is taken off the queue and its run called, until the queue is empty
RECURSIVE run_all(_, _)
run_all(queue, done) ==
    IF queue = <<>> THEN done ELSE run_all(Tail(queue), Append(done, Head(queue)))

\* drain(): executes the entries from head to tail
drain ==
    /\ tasks # <<>>
    /\ ran' = run_all(tasks, ran)
    /\ tasks' = <<>>
    /\ UNCHANGED enqueued
    /\ UNCHANGED <<callableVars, taskVars, formatVars, loggedVars, stringVars, logVars, setupVars>>

JobSpecInit == CallableIdle /\ TaskInit /\ FormatInit /\ LoggedInit /\ JobInit /\ StringInit /\ LogInit /\ SetupInit

JobNext ==
    \/ Job_new
    \/ \E runnable \in Runnables : enqueue(runnable)
    \/ drain

JobSpec == JobSpecInit /\ [][JobNext]_vars

(***************************************************************************)
(* lib.rs: try_string_from                                                 *)
(***************************************************************************)
\* the types of the values handed in, by what the downcasts make of them
Utf8Types == {"String", "&str"}
OsTypes == {"OsString", "&OsStr", "PathBuf", "&Path"}
UnsignedTypes == {"usize", "u8", "u16", "u32", "u64", "u128"}
SignedTypes == {"isize", "i8", "i16", "i32", "i64", "i128"}
FloatTypes == {"f32", "f64"}
OtherTypes == {"Option<isize>", "&String", "Vec<u8>"}

\* text that is valid UTF-8, and OS text with a unit that is not
Utf8Texts == {<<>>, <<"a">>, <<"a", "/", "b">>}
OsTexts == Utf8Texts \cup {<<"a", "invalid">>}

\* the values try_string_from is called on
Values ==
    [type : Utf8Types, v : Utf8Texts]
    \cup [type : OsTypes, v : OsTexts]
    \cup {[type |-> "()"]}
    \cup [type : UnsignedTypes, v : {0, 5, 10}]
    \cup [type : SignedTypes, v : {0 - 5, 0, 5, 10}]
    \cup [type : FloatTypes, v : {[whole |-> 5, tenths |-> 0], [whole |-> 2, tenths |-> 5]}]
    \cup [type : {"char"}, v : {"x", "7"}]
    \cup [type : {"bool"}, v : BOOLEAN]
    \cup [type : OtherTypes, v : {5}]

\* value_any.downcast_ref::<T>()
downcast_ref(value_any, T) == IF value_any.type = T THEN Some(value_any) ELSE None

\* to_string_lossy: what is not valid UTF-8 becomes U+FFFD
to_string_lossy(text) ==
    [k \in 1..Len(text) |-> IF text[k] = "invalid" THEN "U+FFFD" ELSE text[k]]

\* f32 / f64 to_string: no fraction is printed for a whole number
float_to_string(f) ==
    to_string(f.whole) \o (IF f.tenths = 0 THEN <<>> ELSE <<".">> \o to_string(f.tenths))

\* bool to_string
bool_to_string(b) ==
    IF b THEN <<"t", "r", "u", "e">> ELSE <<"f", "a", "l", "s", "e">>

\* a try_string_from that knows the two string types only
try_string_from_strings_only(value) ==
    IF value.type \in Utf8Types THEN Some(value.v) ELSE None

\* try_string_from: the chain of downcasts, the first that succeeds decides
try_string_from(value) ==
    LET value_any == value IN
    IF downcast_ref(value_any, "String") # None THEN Some(value_any.v)
    ELSE IF downcast_ref(value_any, "&str") # None THEN Some(value_any.v)
    ELSE IF downcast_ref(value_any, "OsString") # None THEN Some(to_string_lossy(value_any.v))
    ELSE IF downcast_ref(value_any, "&OsStr") # None THEN Some(to_string_lossy(value_any.v))
    ELSE IF downcast_ref(value_any, "PathBuf") # None THEN Some(to_string_lossy(value_any.v))
    ELSE IF downcast_ref(value_any, "&Path") # None THEN Some(to_string_lossy(value_any.v))
    ELSE IF downcast_ref(value_any, "()") # None THEN Some(<<"(", ")">>)
    ELSE IF downcast_ref(value_any, "usize") # None THEN Some(to_string(value_any.v))
    ELSE IF downcast_ref(value_any, "u8") # None THEN Some(to_string(value_any.v))
    ELSE IF downcast_ref(value_any, "u16") # None THEN Some(to_string(value_any.v))
    ELSE IF downcast_ref(value_any, "u32") # None THEN Some(to_string(value_any.v))
    ELSE IF downcast_ref(value_any, "u64") # None THEN Some(to_string(value_any.v))
    ELSE IF downcast_ref(value_any, "u128") # None THEN Some(to_string(value_any.v))
    ELSE IF downcast_ref(value_any, "isize") # None THEN Some(to_string(value_any.v))
    ELSE IF downcast_ref(value_any, "i8") # None THEN Some(to_string(value_any.v))
    ELSE IF downcast_ref(value_any, "i16") # None THEN Some(to_string(value_any.v))
    ELSE IF downcast_ref(value_any, "i32") # None THEN Some(to_string(value_any.v))
    ELSE IF downcast_ref(value_any, "i64") # None THEN Some(to_string(value_any.v))
    ELSE IF downcast_ref(value_any, "i128") # None THEN Some(to_string(value_any.v))
    ELSE IF downcast_ref(value_any, "f32") # None THEN Some(float_to_string(value_any.v))
    ELSE IF downcast_ref(value_any, "f64") # None THEN Some(float_to_string(value_any.v))
    ELSE IF downcast_ref(value_any, "char") # None THEN Some(<<value_any.v>>)
    ELSE IF downcast_ref(value_any, "bool") # None THEN Some(bool_to_string(value_any.v))
    ELSE None

\* a call of try_string_from on a value
call_try_string_from(value) ==
    /\ value_given' = value
    /\ string_returned' = try_string_from(value)
    /\ stringCall' = TRUE
    /\ UNCHANGED <<callableVars, taskVars, formatVars, loggedVars, jobVars, logVars, setupVars>>

StringSpecInit ==
    /\ CallableIdle /\ TaskInit /\ FormatInit /\ LoggedInit /\ JobInit /\ LogInit /\ SetupInit
    /\ value_given \in Values
    /\ string_returned = None
    /\ stringCall = FALSE

StringNext == \E value \in Values : call_try_string_from(value)

StringSpec == StringSpecInit /\ [][StringNext]_vars

(***************************************************************************)
(* log.rs: LoggingPreferences, LoggingData, Loggable                       *)
(***************************************************************************)
\* the most entries the sink is handed
MaxEmitted == 2

\* log::Level values the entries are given
Levels == {"Debug", "Warn"}

\* the labels, input and output texts handed to the setters
LabelsGiven == {<<"j", "o", "b">>}
InputsGiven == {<<"l", "s">>}
OutputsGiven == {<<"o", "k">>}

\* input_prefix() and output_prefix(): the defaults, or an implementor's own
PrefixChoices ==
    {[input_prefix |-> <<>>, output_prefix |-> <<>>],
     [input_prefix |-> <<">">>, output_prefix |-> <<"<">>]}

\* LogEntryLevel { input_level : Option<Level>, output_level : Option<Level> }
LogEntryLevels ==
    [input_level : {None} \cup {Some(l) : l \in Levels},
     output_level : {None} \cup {Some(l) : l \in Levels}]

\* the values of LoggingPreferences
LoggingPreferencesValues ==
    [label : {<<>>} \cup LabelsGiven,
     entry_level : {None} \cup {Some(e) : e \in LogEntryLevels}]

\* log!(target: .., level, "{}{}", prefix, text): the record handed to the
\* logger; site is the log! that made it
log_macro(target, level, prefix, text, site) ==
    [target |-> target, level |-> level, message |-> prefix \o text, site |-> site]

\* what log_input hands to the logger
log_input_entries(logging_preferences, logging_data_given, prefix) ==
    IF logging_preferences.entry_level # None
    THEN LET entry_level == logging_preferences.entry_level[1] IN
         IF entry_level.input_level # None
         THEN <<log_macro(logging_preferences.label, entry_level.input_level[1],
                          prefix.input_prefix, logging_data_given.input, "log_input")>>
         ELSE <<>>
    ELSE <<>>

\* a log_output that looks at the input level
log_output_entries_by_input_level(logging_preferences, logging_data_given, prefix) ==
    IF logging_preferences.entry_level # None
    THEN LET entry_level == logging_preferences.entry_level[1] IN
         IF entry_level.input_level # None
         THEN <<log_macro(logging_preferences.label, entry_level.input_level[1],
                          prefix.output_prefix, logging_data_given.output, "log_output")>>
         ELSE <<>>
    ELSE <<>>

\* what log_output hands to the logger
log_output_entries(logging_preferences, logging_data_given, prefix) ==
    IF logging_preferences.entry_level # None
    THEN LET entry_level == logging_preferences.entry_level[1] IN
         IF entry_level.output_level # None
         THEN <<log_macro(logging_preferences.label, entry_level.output_level[1],
                          prefix.output_prefix, logging_data_given.output, "log_output")>>
         ELSE <<>>
    ELSE <<>>

\* a log that calls log_output first
log_entries_output_first(logging_preferences, logging_data_given, prefix) ==
    log_output_entries(logging_preferences, logging_data_given, prefix)
        \o log_input_entries(logging_preferences, logging_data_given, prefix)

\* what log hands to the logger: self.log_input(); self.log_output();
log_entries(logging_preferences, logging_data_given, prefix) ==
    log_input_entries(logging_preferences, logging_data_given, prefix)
        \o log_output_entries(logging_preferences, logging_data_given, prefix)

\* what the operations on the Loggable leave alone outside log.rs
LogFrame ==
    /\ UNCHANGED <<task_id, logging_data, logging_format, output, Rtraits, rendered>>
    /\ UNCHANGED <<callableVars, taskVars, formatVars, jobVars, stringVars, setupVars>>

\* LoggingPreferences::new
LoggingPreferences_new(label) ==
    /\ preferences' = [LoggingPreferences_default EXCEPT !.label = label]
    /\ logCall' = [op |-> "LoggingPreferences::new"]
    /\ UNCHANGED <<loggable_data, prefixes, emitted>>
    /\ LogFrame

\* LoggingPreferences::set_label
set_label(label) ==
    /\ preferences' = [preferences EXCEPT !.label = label]
    /\ logCall' = [op |-> "set_label"]
    /\ UNCHANGED <<loggable_data, prefixes, emitted>>
    /\ LogFrame

\* LoggingPreferences::set_file_level
set_file_level(file_level) ==
    /\ preferences' = [preferences EXCEPT !.entry_level = Some(file_level)]
    /\ logCall' = [op |-> "set_file_level"]
    /\ UNCHANGED <<loggable_data, prefixes, emitted>>
    /\ LogFrame

\* LoggingData::set_input
set_input(input) ==
    /\ loggable_data' = [loggable_data EXCEPT !.input = input]
    /\ logCall' = [op |-> "set_input"]
    /\ UNCHANGED <<preferences, prefixes, emitted>>
    /\ LogFrame

\* LoggingData::set_output
set_output(output_given) ==
    /\ loggable_data' = [loggable_data EXCEPT !.output = output_given]
    /\ logCall' = [op |-> "set_output"]
    /\ UNCHANGED <<preferences, prefixes, emitted>>
    /\ LogFrame

\* Loggable::log_input
log_input ==
    /\ Len(emitted) < MaxEmitted
    /\ emitted' = emitted \o log_input_entries(preferences, loggable_data, prefixes)
    /\ logCall' = [op |-> "log_input", at |-> Len(emitted)]
    /\ UNCHANGED <<preferences, loggable_data, prefixes>>
    /\ LogFrame

\* Loggable::log_output
log_output ==
    /\ Len(emitted) < MaxEmitted
    /\ emitted' = emitted \o log_output_entries(preferences, loggable_data, prefixes)
    /\ logCall' = [op |-> "log_output", at |-> Len(emitted)]
    /\ UNCHANGED <<preferences, loggable_data, prefixes>>
    /\ LogFrame

\* Loggable::log
log ==
    /\ Len(emitted) + 1 < MaxEmitted
    /\ emitted' = emitted \o log_entries(preferences, loggable_data, prefixes)
    /\ logCall' = [op |-> "log", at |-> Len(emitted)]
    /\ UNCHANGED <<preferences, loggable_data, prefixes>>
    /\ LogFrame

\* a Loggable whose preferences are any value of the type, with new data
LogSpecInit ==
    /\ CallableIdle /\ TaskInit /\ FormatInit /\ LoggedInit /\ JobInit /\ StringInit /\ SetupInit
    /\ preferences \in LoggingPreferencesValues
    /\ loggable_data = [input |-> <<>>, output |-> <<>>]
    /\ prefixes \in PrefixChoices
    /\ logCall = [op |-> "none"]

LogNext ==
    \/ \E label \in LabelsGiven : LoggingPreferences_new(label)
    \/ \E label \in LabelsGiven : set_label(label)
    \/ \E file_level \in LogEntryLevels : set_file_level(file_level)
    \/ \E input \in InputsGiven : set_input(input)
    \/ \E output_given \in OutputsGiven : set_output(output_given)
    \/ log_input
    \/ log_output
    \/ log

LogSpec == LogSpecInit /\ [][LogNext]_vars

(***************************************************************************)
(* lib.rs: tests::INIT and tests::setup_logging                            *)
(***************************************************************************)
\* log::LevelFilter
LevelFilters == {"Off", "Error", "Warn", "Info", "Debug", "Trace"}

\* the match on verbosity: the level and the level for "console-target"
base_config(level_filter) ==
    [level |-> level_filter,
     console_target |->
        CASE level_filter = "Off" -> "Off"
          [] level_filter = "Trace" -> "Debug"
          [] level_filter = "Debug" -> "Info"
          [] level_filter = "Info" -> "Warn"
          [] level_filter = "Warn" -> "Error"
          [] level_filter = "Error" -> "Off"]

\* what setup_logging leaves alone
SetupFrame ==
    UNCHANGED <<callableVars, taskVars, formatVars, loggedVars, jobVars, stringVars, logVars>>

\* a test thread calls setup_logging(verbosity)
setup_logging(t, level_filter) ==
    /\ setup_pc[t] \in {"idle", "returned"}
    /\ setup_pc' = [setup_pc EXCEPT ![t] = "call_once"]
    /\ verbosity' = [verbosity EXCEPT ![t] = level_filter]
    /\ UNCHANGED <<INIT, logger>>
    /\ SetupFrame

\* INIT.call_once on a Once no call has run yet: this call runs the closure
call_once_incomplete(t) ==
    /\ setup_pc[t] = "call_once"
    /\ INIT = "incomplete"
    /\ INIT' = "running"
    /\ setup_pc' = [setup_pc EXCEPT ![t] = "closure"]
    /\ UNCHANGED <<logger, verbosity>>
    /\ SetupFrame

\* a call_once that runs its closure on a completed Once as well
call_once_complete_runs_again(t) ==
    /\ setup_pc[t] = "call_once"
    /\ INIT = "complete"
    /\ INIT' = "running"
    /\ setup_pc' = [setup_pc EXCEPT ![t] = "closure"]
    /\ UNCHANGED <<logger, verbosity>>
    /\ SetupFrame

\* INIT.call_once on a completed Once returns without running the closure; on
\* a Once whose closure is running it waits
call_once_complete(t) ==
    /\ setup_pc[t] = "call_once"
    /\ INIT = "complete"
    /\ setup_pc' = [setup_pc EXCEPT ![t] = "returned"]
    /\ UNCHANGED <<INIT, logger, verbosity>>
    /\ SetupFrame

\* INIT.call_once on a poisoned Once panics
call_once_poisoned(t) ==
    /\ setup_pc[t] = "call_once"
    /\ INIT = "poisoned"
    /\ setup_pc' = [setup_pc EXCEPT ![t] = "panicked"]
    /\ UNCHANGED <<INIT, logger, verbosity>>
    /\ SetupFrame

\* the closure builds the configuration from the verbosity it captured and
\* applies it
closure_apply(t) ==
    /\ setup_pc[t] = "closure"
    /\ logger' = Append(logger, base_config(verbosity[t]))
    /\ INIT' = "complete"
    /\ setup_pc' = [setup_pc EXCEPT ![t] = "returned"]
    /\ UNCHANGED verbosity
    /\ SetupFrame

\* fern::log_file(..).unwrap() or .apply().unwrap() panics in the closure: the
\* Once is poisoned
closure_unwrap_panics(t) ==
    /\ setup_pc[t] = "closure"
    /\ INIT' = "poisoned"
    /\ setup_pc' = [setup_pc EXCEPT ![t] = "panicked"]
    /\ UNCHANGED <<logger, verbosity>>
    /\ SetupFrame

SetupSpecInit ==
    /\ CallableIdle /\ TaskInit /\ FormatInit /\ LoggedInit /\ JobInit /\ StringInit /\ LogInit
    /\ SetupInit

SetupNext ==
    \E t \in Threads :
        \/ \E level_filter \in LevelFilters : setup_logging(t, level_filter)
        \/ call_once_incomplete(t)
        \/ call_once_complete(t)
        \/ call_once_poisoned(t)
        \/ closure_apply(t)
        \/ closure_unwrap_panics(t)

SetupSpec == SetupSpecInit /\ [][SetupNext]_vars

(***************************************************************************)
(* Properties                                                              *)
(***************************************************************************)
AM == Err("CallableArgumentsMissing")
HM == Err("CallableHandleMissing")
Panicked == Err("CallablePanicked")

NeverBound == argsHistory = "never"
Rebound == argsHistory = "rebound"
Repeatable == {"FnMut", "Fn"}

\* the step is a run or run_and_return that invoked the handle
Invoked == Len(calls') = Len(calls) + 1
LastInvocation(cs) == cs[Len(cs)]

\* C1: once the handle of a unit has been invoked, every further run or
\* run_and_return in a sequence of run calls (no args in between) returns
\* Err(HandleMissing) or Err(ArgumentsMissing), never Ok, and does not invoke
\* the handle again: the handle is invoked at most once.
C1_AtMostOnce ==
    [][(lastCall' \in RunCalls /\ Len(calls) >= 1 /\ ~Rebound)
        => (result' \in {HM, AM} /\ calls' = calls)]_vars

\* a second run on a unit whose handle was invoked once came back with an error
C1_Witness ==
    /\ lastCall \in RunCalls
    /\ Len(calls) = 1
    /\ ~calls[1].panicked
    /\ ~Rebound
    /\ result \in {HM, AM}

\* C2: when the invoked handle panics, run and run_and_return return
\* Err(Panicked), the panic does not unwind past the call and the caller
\* goes on.
C2_PanicContained ==
    [][(lastCall' \in RunCalls /\ Invoked /\ LastInvocation(calls').panicked)
        => (result' = Panicked /\ ~crashed')]_vars

\* the caller called args after a run whose handle panicked
C2_Witness ==
    /\ lastCall = "args"
    /\ Len(calls) >= 1
    /\ LastInvocation(calls).panicked
    /\ result = Panicked
    /\ ~crashed

\* C3: on a fresh unit with handle h and bound arguments a, where h(a)
\* returns v without panicking, the first run_and_return returns Ok(v), h is
\* invoked exactly once with exactly a and its effect on the vector occurs
\* once; a pop over [1,2,3,4,5,6] returns Ok(Some(6)) and leaves [1,2,3,4,5].
C3_RoundTrip ==
    [][(/\ lastCall' = "run_and_return"
        /\ calls = <<>>
        /\ handle # None
        /\ arguments # None
        /\ ~Call(F.op, arguments[1], vector).panicked)
        => LET c == Call(F.op, arguments[1], vector) IN
           /\ result' = Ok(c.ret)
           /\ calls' = <<[args |-> arguments[1], panicked |-> FALSE]>>
           /\ vector' = c.vec
           /\ (F.op = "pop" /\ vector = <<1, 2, 3, 4, 5, 6>>)
                => (result' = Ok(SomeValue(6)) /\ vector' = <<1, 2, 3, 4, 5>>)]_vars

\* the pop of the test has run through run_and_return
C3_Witness ==
    /\ lastCall = "run_and_return"
    /\ F.op = "pop"
    /\ Len(calls) = 1
    /\ result = Ok(SomeValue(6))
    /\ vector = <<1, 2, 3, 4, 5>>

\* C4: a unit whose handle takes arguments and on which args was never
\* called returns Err(ArgumentsMissing) on run and does not invoke the handle.
C4_ArgumentsMissing ==
    [][(lastCall' \in RunCalls /\ ~NoArgs(F.op) /\ NeverBound)
        => (result' = AM /\ calls' = <<>> /\ vector' = vector)]_vars

\* a run on a unit that never had arguments has returned ArgumentsMissing
C4_Witness ==
    /\ lastCall = "run"
    /\ ~NoArgs(F.op)
    /\ NeverBound
    /\ handle # None
    /\ result = AM

\* C5: the arguments are checked before the handle: a run on a unit with no
\* arguments returns Err(ArgumentsMissing), so a spent consume-once unit
\* returns ArgumentsMissing, and HandleMissing is returned only when the
\* arguments are present and the handle is absent.
C5_ArgumentsCheckedFirst ==
    [][(lastCall' \in RunCalls)
        => /\ arguments = None => result' = AM
           /\ result' = HM => (arguments # None /\ handle = None)]_vars

\* a later run on a spent consume-once unit has returned ArgumentsMissing
C5_Witness ==
    /\ lastCall \in RunCalls
    /\ F.kind = "FnOnce"
    /\ Len(calls) = 1
    /\ ~calls[1].panicked
    /\ handle = None
    /\ arguments = None
    /\ result = AM

\* C6: every run and run_and_return returns Ok, Err(HandleMissing),
\* Err(ArgumentsMissing) or Err(Panicked) and nothing else; it returns Ok
\* exactly when the handle was invoked and returned; the call never panics.
C6_Exhaustive ==
    [][(lastCall' \in RunCalls)
        => /\ ~crashed'
           /\ result'.tag \in {"Ok", "Err"}
           /\ result'.tag = "Err" => result'.error \in CallableError
           /\ result'.tag = "Ok" <=> (Invoked /\ ~LastInvocation(calls').panicked)
           /\ result' = Panicked <=> (Invoked /\ LastInvocation(calls').panicked)]_vars

\* a run whose handle panicked has returned Err(Panicked) to a live caller
C6_Witness ==
    /\ lastCall \in RunCalls
    /\ Len(calls) >= 1
    /\ LastInvocation(calls).panicked
    /\ result = Panicked
    /\ ~crashed

\* C7 as claimed: once the handle of a unit has been invoked, no operation
\* on that unit (args, run, run_and_return) leads to a further invocation.
C7_NoRearm ==
    [][(Len(calls) >= 1 /\ lastCall' # "new") => calls' = calls]_vars

\* C7 as amended: for a consume-once (FnOnce) unit, once the handle has been
\* invoked the handle stays absent and no operation on that unit invokes it
\* again.
C7_OnceNoRearm ==
    [][(F.kind = "FnOnce" /\ Len(calls) >= 1 /\ lastCall' # "new")
        => (handle' = None /\ calls' = calls)]_vars

\* arguments were bound again on a spent consume-once unit and the run failed
C7_Witness ==
    /\ lastCall \in RunCalls
    /\ F.kind = "FnOnce"
    /\ Len(calls) = 1
    /\ Rebound
    /\ result = HM

\* C8 as claimed: right after a run has returned, the handle and the
\* arguments are both absent or both present.
C8_NeverTorn ==
    lastCall \in RunCalls => ((handle = None) <=> (arguments = None))

\* C8 as amended: right after a run has returned, the arguments are absent;
\* the handle is absent exactly when the unit is consume-once and its handle
\* has been invoked, and present otherwise.
C8_AfterRun ==
    lastCall \in RunCalls
        => /\ arguments = None
           /\ (handle = None) <=> (F.kind = "FnOnce" /\ Len(calls) >= 1)

\* a repeatable unit after a run: handle present, arguments absent
C8_Witness ==
    /\ lastCall \in RunCalls
    /\ F.kind \in Repeatable
    /\ Len(calls) >= 1
    /\ handle # None
    /\ arguments = None

\* C9 as claimed: a run of a repeatable unit leaves the stored arguments in
\* place.
C9_ArgumentsKept ==
    [][(lastCall' \in RunCalls /\ F.kind \in Repeatable /\ arguments # None)
        => arguments' = arguments]_vars

\* C9 as amended: a run of a repeatable unit leaves the handle in place and
\* moves the stored arguments out; it invokes the handle with the stored
\* bundle when there is one, and returns Err(ArgumentsMissing) without
\* invoking it when there is none, so a further run needs args first.
C9_HandleKeptArgumentsMoved ==
    [][(lastCall' \in RunCalls /\ F.kind \in Repeatable)
        => /\ handle' = handle
           /\ handle # None
           /\ arguments' = None
           /\ arguments = None => (result' = AM /\ calls' = calls)
           /\ arguments # None => (Invoked /\ LastInvocation(calls').args = arguments[1])]_vars

\* a repeatable unit has been run twice with success, args called in between
C9_Witness ==
    /\ lastCall \in RunCalls
    /\ F.kind \in Repeatable
    /\ Len(calls) = 2
    /\ ~calls[1].panicked
    /\ ~calls[2].panicked
    /\ Rebound
    /\ result.tag = "Ok"

\* C10: a unit whose handle takes no arguments has the empty bundle bound by
\* new: without any call of args its first run invokes the handle once, with
\* the empty bundle, and returns Ok (Err(Panicked) if the handle panics),
\* never ArgumentsMissing.
C10_EmptyBundleImplicit ==
    [][(lastCall' \in RunCalls /\ NoArgs(F.op) /\ NeverBound /\ result = NoResult)
        => /\ calls' = <<[args |-> UnitBundle, panicked |-> Call(F.op, UnitBundle, vector).panicked]>>
           /\ result'.tag = "Ok" <=> ~Call(F.op, UnitBundle, vector).panicked
           /\ result' \notin {AM, HM}]_vars

\* the first run of a unit without arguments has returned Ok
C10_Witness ==
    /\ lastCall \in RunCalls
    /\ NoArgs(F.op)
    /\ NeverBound
    /\ Len(calls) = 1
    /\ result.tag = "Ok"

\* C11: new yields a unit with the handle present and, for a handle that
\* takes arguments, the arguments absent, and invokes nothing; args(a) stores
\* a as the bound arguments whatever was stored before, leaves the handle
\* unchanged, returns nothing that can fail and does not invoke the handle.
C11_NewAndArgsFrame ==
    [][/\ lastCall' = "new"
          => /\ handle' = Some(F'.op)
             /\ ~NoArgs(F'.op) => arguments' = None
             /\ calls' = <<>>
             /\ vector' = vector
             /\ ~crashed'
       /\ lastCall' = "args"
          => /\ arguments' = Some(argsCall'.input)
             /\ argsCall'.before = arguments
             /\ handle' = handle
             /\ F' = F
             /\ calls' = calls
             /\ vector' = vector
             /\ result' = result
             /\ ~crashed']_vars

\* args has replaced a different bundle that was stored before
C11_Witness ==
    /\ lastCall = "args"
    /\ argsCall.before # None
    /\ argsCall.before # Some(argsCall.input)
    /\ arguments = Some(argsCall.input)
    /\ handle # None
    /\ calls = <<>>

\* what a run or run_and_return hands back for the closure's outcome
Returned(body) == match_output(catch_unwind(body).output)

\* C12: started from the same unit state, run returns Ok(()) exactly when
\* run_and_return returns Ok(v) and the same error otherwise, and both leave
\* the handle, the arguments and the outside vector the same and invoke the
\* handle alike; push 7 onto [1,2,3,4,5] gives Ok(()) and [1,2,3,4,5,7].
C12_RunDiscardsValue ==
    /\ [](LET r == RunClosure(F.kind, handle, arguments, vector)
              rr == RunAndReturnClosure(F.kind, handle, arguments, vector)
          IN  /\ r.handle = rr.handle
              /\ r.arguments = rr.arguments
              /\ r.vec = rr.vec
              /\ r.invoked = rr.invoked
              /\ catch_unwind(r).escaped = catch_unwind(rr).escaped
              /\ Returned(rr).tag = "Ok" <=> Returned(r) = Ok(UnitValue)
              /\ Returned(rr).tag = "Err" => Returned(r) = Returned(rr))
    /\ [][(/\ lastCall' = "run"
           /\ F.op = "push"
           /\ handle # None
           /\ arguments = Some([self |-> "vector", value |-> 7])
           /\ vector = <<1, 2, 3, 4, 5>>)
           => (result' = Ok(UnitValue) /\ vector' = <<1, 2, 3, 4, 5, 7>>)]_vars

\* the push of the test has run through run
C12_Witness ==
    /\ lastCall = "run"
    /\ F.op = "push"
    /\ Len(calls) = 1
    /\ calls[1].args.value = 7
    /\ result = Ok(UnitValue)
    /\ vector = <<1, 2, 3, 4, 5, 7>>

\* C13: run_and_then invokes the callback exactly once, with the value the
\* handle returned, when the run succeeded, and after the handle; when the
\* run failed the callback is not invoked and the failure is returned.
C13_CallbackOnSuccessOnly ==
    [][(lastCall' = "run_and_then")
        => IF Invoked /\ ~LastInvocation(calls').panicked
           THEN callbacks' = Append(callbacks, Call(F.op, arguments[1], vector).ret)
           ELSE callbacks' = callbacks /\ result' \in {AM, HM, Panicked}]_vars

\* the callback has been given the value a pop returned
C13_Witness ==
    /\ lastCall = "run_and_then"
    /\ F.op = "pop"
    /\ Len(calls) = 1
    /\ callbacks = <<SomeValue(6)>>
    /\ vector = <<1, 2, 3, 4, 5>>

\* the IDs one counter has handed out, in order
IdsOf(counter) ==
    LET own == SelectSeq(issued, LAMBDA e : e.counter = counter)
    IN  [i \in 1..Len(own) |-> own[i].id]

\* among the first 2^w IDs of the sequence each is greater than all before it
StrictlyIncreasing(ids) ==
    \A i, j \in 1..Len(ids) : (i < j /\ j <= UsizeModulus) => ids[i] < ids[j]

\* C14: the task IDs the crate-root generate_task_id hands out one after the
\* other (one per LoggedCallable construction) are pairwise distinct and each
\* is greater than the one before, up to the wrap-around of the counter.
C14_SequentialIdsIncrease ==
    /\ StrictlyIncreasing(IdsOf("TASK_ID"))
    /\ \A t \in Threads : pc[t] = "idle" /\ (\E i \in 1..Len(issued) : issued[i].thread = t)
          => \E i \in 1..Len(issued) : issued[i].thread = t /\ issued[i].id = ret[t]

\* three IDs have been drawn from TASK_ID
C14_Witness ==
    /\ Len(IdsOf("TASK_ID")) = 3
    /\ IdsOf("TASK_ID") = <<0, 1, 2>>

\* C15: with threads calling generate_task_id concurrently, in every
\* interleaving no two calls on one counter return the same value (up to the
\* wrap-around) and no increment is lost: after n calls the counter has
\* advanced by exactly n.
C15_ConcurrentIdsUnique ==
    /\ \A i, j \in 1..Len(issued) :
         (i < j /\ issued[i].counter = issued[j].counter
            /\ Len(IdsOf(issued[j].counter)) <= UsizeModulus)
           => issued[i].id # issued[j].id
    /\ TASK_ID = Len(IdsOf("TASK_ID")) % UsizeModulus
    /\ TASK_ID_GENERATOR = Len(IdsOf("TASK_ID_GENERATOR")) % UsizeModulus

\* both threads are inside generate_task_id at once, after IDs were drawn by both
C15_Witness ==
    /\ pc[1] = "lib"
    /\ pc[2] = "lib"
    /\ \E i, j \in 1..Len(issued) :
         /\ issued[i].thread = 1
         /\ issued[j].thread = 2
         /\ issued[i].counter = "TASK_ID"
         /\ issued[j].counter = "TASK_ID"

\* C16: any two task IDs handed out in the process, through the crate-root
\* generate_task_id or through the task module's, are distinct (up to the
\* wrap-around).
C16_OneCounter ==
    \A i, j \in 1..Len(issued) :
        (i < j /\ j <= UsizeModulus) => issued[i].id # issued[j].id

\* C17: LoggingFormat::new() is empty, and append_handle, append_args,
\* append_output and append_string each put exactly one token of their kind
\* (for append_string, with the given string) at the end and leave the
\* earlier tokens and their order as they were.
C17_AppendsAtEnd ==
    [][/\ formatCall'.op = "new" => format' = <<>>
       /\ formatCall'.op = "append_handle" => format' = format \o <<Handle>>
       /\ formatCall'.op = "append_args" => format' = format \o <<Args>>
       /\ formatCall'.op = "append_output" => format' = format \o <<Output>>
       /\ formatCall'.op = "append_string"
            => format' = format \o <<ArbitraryString(formatCall'.given_string)>>]_vars

\* a chain of four appends, one of each kind, has been made on a new format
C17_Witness ==
    /\ format = <<Handle, ArbitraryString(<<":", " ">>), Args, Output>>
    /\ formatCall.op = "append_output"

\* C18: no public operation on a LoggingFormat removes, reorders or
\* overwrites a token already in it: its length never decreases and what
\* it held stays a prefix of what it holds.
C18_AppendOnly ==
    [][formatCall'.op # "new"
        => (Len(format') >= Len(format) /\ SubSeq(format', 1, Len(format)) = format)]_vars

\* the text the claim gives a token: the stored descriptions, the literal,
\* and for Output the text of the outcome where R has one
TokenText(token) ==
    CASE token = Handle -> logging_data[1].handle
      [] token = Args -> logging_data[1].arguments
      [] token = Output ->
           IF Rtraits # "none" /\ output # None /\ output[1].tag = "Ok"
           THEN IF Rtraits = "Display" THEN format_Display(output[1].value)
                ELSE format_Debug(output[1].value)
           ELSE NA
      [] OTHER -> token.string

\* the texts of the tokens from position i on, one after the other
RECURSIVE Concatenation(_, _)
Concatenation(tokens, i) ==
    IF i > Len(tokens) THEN <<>> ELSE TokenText(tokens[i]) \o Concatenation(tokens, i + 1)

Undecorated ==
    match_output(catch_unwind(RunAndReturnClosure(F.kind, handle, arguments, vector)).output)

\* C20: where the handle succeeds with v and no format was set, the outcome
\* of the decorated run is the Ok(v) the undecorated unit returns, no line
\* reaches the sink, and nothing unwinds out of run.
C20_NoFormatSameOutcome ==
    [][(lastCall' = "Runnable::run" /\ logging_format = None /\ Undecorated.tag = "Ok")
        => (/\ output' = Some(Undecorated)
            /\ emitted' = emitted
            /\ ~crashed')]_vars

\* a decorated unit without a format has run a pop that returned Some(6)
C20_Witness ==
    /\ lastCall = "Runnable::run"
    /\ logging_format = None
    /\ output = Some(Ok(SomeValue(6)))
    /\ emitted = <<>>
    /\ ~crashed

\* the outcome a decorated run holds is the one the undecorated unit
\* returns: the same Ok(v), the caught panic for CallablePanicked, and
\* otherwise the same error
SameOutcome(held, returned) ==
    \/ held = Some(returned)
    \/ returned = Err("CallablePanicked") /\ held = Some(Err("payload")) /\ Len(calls') > Len(calls)

\* C21: for every format and every description the unit has, the outcome
\* of a decorated run is the Result the undecorated unit's run_and_return
\* produces on the same handle, arguments and vector.
C21_OutcomeOfInnerRun ==
    [][lastCall' = "Runnable::run" => SameOutcome(output', Undecorated)]_vars

\* C22: the line a decorated run renders resolves the Output token against
\* the outcome of that same run: it is the line generate_log gives on the
\* fields as they are once the outcome is stored.
C22_RenderedAfterOutcome ==
    [][(lastCall' = "Runnable::run" /\ logging_format # None)
        => rendered' = generate_log(Rtraits, logging_format, logging_data, output')]_vars

\* the characters that count as whitespace
Whitespace == {" "}

\* a string with its whitespace removed
RECURSIVE Stripped(_)
Stripped(str) ==
    IF str = <<>> THEN <<>>
    ELSE (IF Head(str) \in Whitespace THEN <<>> ELSE <<Head(str)>>) \o Stripped(Tail(str))

\* C23: args of the decorated unit stores the arguments description it is
\* given with the whitespace removed.
C23_DescriptionStripped ==
    [][(lastCall' = "args" /\ argsCall'.called /\ logging_data' # None)
        => logging_data'[1].arguments = Stripped(argsCall'.arguments_string)]_vars

\* C24: a Job runs its entries in the order they were enqueued: what has
\* run followed by what still waits is what was enqueued, in that order,
\* so an entry enqueued earlier runs earlier and no entry runs twice.
C24_FifoOrder ==
    /\ ran \o tasks = enqueued
    /\ \A i, j \in 1..Len(ran) : i < j => ran[i].id < ran[j].id

\* two drains have run three entries and a fourth waits in the queue
C24_Witness ==
    /\ Len(ran) >= 3
    /\ ran[2].runnable # ran[3].runnable
    /\ tasks # <<>>

\* the text of a value of a type that has one
TextualForm(value) ==
    CASE value.type \in Utf8Types -> value.v
      [] value.type \in OsTypes -> to_string_lossy(value.v)
      [] value.type = "()" -> <<"(", ")">>
      [] value.type \in UnsignedTypes \cup SignedTypes -> to_string(value.v)
      [] value.type \in FloatTypes -> float_to_string(value.v)
      [] value.type = "char" -> <<value.v>>
      [] OTHER -> bool_to_string(value.v)

\* the types the claim names as supported
ClaimedTypes ==
    Utf8Types \cup OsTypes \cup {"()"} \cup UnsignedTypes \cup SignedTypes \cup {"char", "bool"}

\* C25 as stated: Some(text) for String, &str, OsString, &OsStr, PathBuf,
\* &Path, (), the integers, char and bool, and None for every other type.
C25_NoneForOtherTypes ==
    stringCall =>
        IF value_given.type \in ClaimedTypes
        THEN string_returned = Some(TextualForm(value_given))
        ELSE string_returned = None

\* C25, amended: try_string_from returns Some(text) for String, &str,
\* OsString, &OsStr, PathBuf, &Path, (), every integer width, f32, f64,
\* char and bool - 5isize gives "5", () gives "()" - and None for a value
\* of any other type.
C25_SomeForSupported ==
    stringCall =>
        /\ IF value_given.type \in ClaimedTypes \cup FloatTypes
           THEN string_returned = Some(TextualForm(value_given))
           ELSE string_returned = None
        /\ value_given = [type |-> "isize", v |-> 5] => string_returned = Some(<<"5">>)
        /\ value_given = [type |-> "()"] => string_returned = Some(<<"(", ")">>)

\* try_string_from has answered "2.5" for a float
C25_Witness ==
    /\ stringCall
    /\ value_given = [type |-> "f64", v |-> [whole |-> 2, tenths |-> 5]]
    /\ string_returned = Some(<<"2", ".", "5">>)

\* C26: a run that returns ArgumentsMissing on a unit whose handle was
\* never invoked leaves the handle in place, the arguments absent and
\* invokes nothing; when arguments are bound after it, the next run invokes
\* the handle once and returns Ok (Err(Panicked) where the handle panics).
C26_MissingArgumentsRecoverable ==
    [][/\ (lastCall' \in RunCalls /\ calls = <<>> /\ result' = AM)
            => (/\ handle' = handle
                /\ handle' # None
                /\ arguments' = None
                /\ calls' = <<>>
                /\ vector' = vector)
       /\ (lastCall = "args" /\ result = AM /\ calls = <<>> /\ lastCall' \in RunCalls)
            => (/\ Len(calls') = 1
                /\ IF calls'[1].panicked THEN result' = Panicked ELSE result'.tag = "Ok")]_vars

\* arguments have been bound on a consume-once unit whose only run so far
\* returned ArgumentsMissing
C26_Witness ==
    /\ lastCall = "args"
    /\ F.kind = "FnOnce"
    /\ result = AM
    /\ calls = <<>>
    /\ handle # None
    /\ arguments # None

\* C27: on a consume-once unit with the handle absent and the arguments
\* present, run and run_and_return return HandleMissing, invoke nothing and
\* leave the arguments absent; the run after that returns ArgumentsMissing.
C27_HandleMissingConsumesArguments ==
    [][/\ (F.kind = "FnOnce" /\ lastCall' \in RunCalls /\ handle = None /\ arguments # None)
            => (/\ result' = HM
                /\ calls' = calls
                /\ vector' = vector
                /\ arguments' = None
                /\ handle' = None)
       /\ (F.kind = "FnOnce" /\ lastCall \in RunCalls /\ result = HM /\ lastCall' \in RunCalls)
            => (result' = AM /\ calls' = calls)]_vars

\* a run on a spent consume-once unit with re-bound arguments has returned
\* HandleMissing and the arguments are gone
C27_Witness ==
    /\ lastCall \in RunCalls
    /\ F.kind = "FnOnce"
    /\ Rebound
    /\ Len(calls) = 1
    /\ result = HM
    /\ handle = None
    /\ arguments = None

\* C28: a run whose handle panicked leaves the unit as a run whose handle
\* returned does: the arguments absent and, for a consume-once handle, the
\* handle absent; a run that follows returns ArgumentsMissing and does not
\* invoke the handle.
C28_SpentAfterPanic ==
    [][/\ (lastCall' \in RunCalls /\ Invoked /\ LastInvocation(calls').panicked)
            => (/\ arguments' = None
                /\ F.kind = "FnOnce" => handle' = None
                /\ F.kind \in Repeatable => handle' = handle)
       /\ (lastCall \in RunCalls /\ result = Panicked /\ lastCall' \in RunCalls)
            => (result' = AM /\ calls' = calls /\ vector' = vector)]_vars

\* the run after a run whose handle panicked has returned ArgumentsMissing
C28_Witness ==
    /\ lastCall \in RunCalls
    /\ Len(calls) = 1
    /\ calls[1].panicked
    /\ ~Rebound
    /\ result = AM
    /\ ~crashed

\* C29: on each counter generate_task_id returns the value before the
\* increment: from process start the first ID is 0, the k-th call returns
\* k-1 and after k calls the counter holds k (for the first 2^w calls).
C29_ReturnsValueBeforeIncrement ==
    \A counter \in {"TASK_ID", "TASK_ID_GENERATOR"} :
        LET ids == IdsOf(counter)
            held == IF counter = "TASK_ID" THEN TASK_ID ELSE TASK_ID_GENERATOR
        IN  /\ \A k \in 1..Len(ids) : k <= UsizeModulus => ids[k] = k - 1
            /\ Len(ids) < UsizeModulus => held = Len(ids)

\* three IDs have been drawn from the task module's counter
C29_Witness ==
    /\ IdsOf("TASK_ID_GENERATOR") = <<0, 1, 2>>
    /\ TASK_ID_GENERATOR = 3
    /\ \A t \in Threads : pc[t] = "idle"

\* C30: generate_task_id does not fail on overflow: a call that finds the
\* counter at 2^w - 1 returns 2^w - 1 and leaves the counter at 0, every
\* other call leaves it one higher, and the call always returns.
C30_WrapsToZero ==
    [][\A t \in Threads :
         /\ (pc[t] = "lib" /\ pc'[t] # "lib")
              => (/\ pc'[t] = "idle"
                  /\ ret'[t] = TASK_ID
                  /\ TASK_ID' = IF TASK_ID = UsizeModulus - 1 THEN 0 ELSE TASK_ID + 1)
         /\ (pc[t] = "task" /\ pc'[t] # "task")
              => (/\ pc'[t] = "idle"
                  /\ ret'[t] = TASK_ID_GENERATOR
                  /\ TASK_ID_GENERATOR' =
                        IF TASK_ID_GENERATOR = UsizeModulus - 1 THEN 0
                        ELSE TASK_ID_GENERATOR + 1)]_vars

\* the crate-root counter has wrapped: 2^w - 1 was handed out, then 0
C30_Witness ==
    /\ TASK_ID = 1
    /\ \E i \in 1..(Len(issued) - 1) :
         /\ issued[i] = [counter |-> "TASK_ID", id |-> UsizeModulus - 1, thread |-> 1]
         /\ issued[i + 1] = [counter |-> "TASK_ID", id |-> 0, thread |-> 2]

\* the entries a step hands to the logger, after the ones it was handed before
Emission == SubSeq(emitted', Len(emitted) + 1, Len(emitted'))

\* the step only adds entries to the ones the logger was handed
Appends == Len(emitted') >= Len(emitted) /\ SubSeq(emitted', 1, Len(emitted)) = emitted

\* the positions of the entries of one log! in a sequence of entries
SiteOf(entries, site) == {i \in 1..Len(entries) : entries[i].site = site}

\* C31: one call of Loggable::log hands the logger at most one input entry and
\* at most one output entry, and never an output entry before its input entry
C31_InputBeforeOutput ==
    [][logCall'.op = "log" =>
         /\ Appends
         /\ Cardinality(SiteOf(Emission, "log_input")) <= 1
         /\ Cardinality(SiteOf(Emission, "log_output")) <= 1
         /\ SiteOf(Emission, "log_input") \cup SiteOf(Emission, "log_output")
                = 1..Len(Emission)
         /\ \A o \in SiteOf(Emission, "log_output") :
                \A i \in SiteOf(Emission, "log_input") : i < o]_vars

\* a log() call that emitted both entries, the input one first
C31_Witness ==
    /\ logCall.op = "log"
    /\ logCall.at = 0
    /\ Len(emitted) = 2
    /\ emitted[1].site = "log_input"
    /\ emitted[2].site = "log_output"

\* the input (resp. output) level the preferences configure, if any
Configured(which) ==
    IF preferences.entry_level = None THEN None
    ELSE IF which = "input" THEN preferences.entry_level[1].input_level
         ELSE preferences.entry_level[1].output_level

\* the step emits exactly the one entry the claim describes for that side
EmitsOne(which, site, prefix, text) ==
    /\ Len(Emission) = 1
    /\ Emission[1].site = site
    /\ Emission[1].target = preferences.label
    /\ Emission[1].level = Configured(which)[1]
    /\ Emission[1].message = prefix \o text

\* C32: log_input emits exactly one entry iff entry_level and its input_level
\* are set, log_output exactly one iff entry_level and its output_level are
\* set, each whatever the other level is; an emitted entry has the label as
\* target, the configured level, and the prefix followed by the text as
\* message; with entry_level unset nothing is emitted
C32_EntriesFollowPreferences ==
    [][/\ logCall'.op = "log_input" =>
            /\ Appends
            /\ IF Configured("input") # None
               THEN EmitsOne("input", "log_input", prefixes.input_prefix, loggable_data.input)
               ELSE Len(Emission) = 0
       /\ logCall'.op = "log_output" =>
            /\ Appends
            /\ IF Configured("output") # None
               THEN EmitsOne("output", "log_output", prefixes.output_prefix, loggable_data.output)
               ELSE Len(Emission) = 0
       /\ (logCall'.op \in {"log_input", "log_output", "log"} /\ preferences.entry_level = None)
            => emitted' = emitted]_vars

\* log_output emitted its entry, prefixed and labelled, with the input level unset
C32_Witness ==
    /\ logCall.op = "log_output"
    /\ logCall.at = 0
    /\ preferences.entry_level # None
    /\ preferences.entry_level[1].input_level = None
    /\ preferences.entry_level[1].output_level = Some("Warn")
    /\ Len(emitted) = 1
    /\ emitted[1] = [target |-> <<"j", "o", "b">>, level |-> "Warn",
                     message |-> <<"<", "o", "k">>, site |-> "log_output"]

\* the call of thread t is the one running the closure of INIT.call_once
Wins(t) == setup_pc[t] = "closure" /\ INIT = "running"

\* C33 (as stated): once a setup_logging call has ended, the configuration has
\* been applied exactly once
C33_AppliedExactlyOnce ==
    (\E t \in Threads : setup_pc[t] \in {"returned", "panicked"}) => Len(logger) = 1

\* C33 (amended): over any setup_logging calls the configuration is applied at
\* most once, by the call that wins INIT.call_once and with that call's
\* verbosity; every call that returns finds it applied exactly once and a call
\* that did not win changes nothing; where the winner's closure panics nothing
\* is applied, then or later, and every later call panics
C33_AppliedAtMostOnce ==
    [][/\ Len(logger') <= 1
       /\ logger' # logger =>
            \E t \in Threads :
                /\ Wins(t)
                /\ setup_pc'[t] = "returned"
                /\ logger = <<>>
                /\ logger'[1].level = verbosity[t]
       /\ \A t \in Threads :
            /\ (setup_pc'[t] = "returned" /\ setup_pc[t] # "returned") => Len(logger') = 1
            /\ (setup_pc'[t] # setup_pc[t] /\ ~Wins(t)) => logger' = logger
            /\ (setup_pc'[t] = "panicked" /\ setup_pc[t] = "call_once") => INIT = "poisoned"
       /\ INIT = "poisoned" => (INIT' = "poisoned" /\ logger' = <<>>)]_vars

\* two calls with different verbosities have returned, the first one's applied
C33_Witness ==
    /\ setup_pc = [t \in Threads |-> "returned"]
    /\ \E t \in Threads : verbosity[t] = "Debug" /\ logger = <<[level |-> "Debug", console_target |-> "Info"]>>
    /\ \E t \in Threads : verbosity[t] = "Trace"

====
